---- MODULE Spec2Model ----
(***************************************************************************)
(* A model of the mediasocial backend (src/src/index.ts): the ingestion    *)
(* route GET /, the rollup route GET /statistics, the refresh route        *)
(* POST /channels/refresh and the ranking queries, over the three tables   *)
(* of src/src/db/schema.ts, the KV cache and the global quota counter.     *)
(*                                                                         *)
(* Texts are sequences of one-character strings.  A nullable value is a    *)
(* sequence of length at most one: None is null/undefined, Some(x) is x.   *)
(***************************************************************************)
EXTENDS Integers, Sequences, FiniteSets, TLC

None == <<>>
Some(x) == <<x>>
IsSome(o) == Len(o) = 1
Val(o) == o[1]

Max(a, b) == IF a >= b THEN a ELSE b

Min(a, b) == IF a <= b THEN a ELSE b

\* A flattening that keeps the first list only.
FirstOnly(ss) == IF ss = <<>> THEN <<>> ELSE Head(ss)

RECURSIVE Flat(_)
\* Array.prototype.flat() of a sequence of sequences.
Flat(ss) == IF ss = <<>> THEN <<>> ELSE Head(ss) \o Flat(Tail(ss))

\* All orderings of a finite set, as sequences without repetition.
Perms(S) == {s \in [1..Cardinality(S) -> S] : \A i, j \in 1..Cardinality(S) : s[i] = s[j] => i = j}

(***************************************************************************)
(* Texts and the conversions the code applies to them                      *)
(***************************************************************************)
Digits == {"0", "1", "2", "3", "4", "5", "6", "7", "8", "9"}

DigitVal(ch) == CASE ch = "0" -> 0 [] ch = "1" -> 1 [] ch = "2" -> 2 [] ch = "3" -> 3
                  [] ch = "4" -> 4 [] ch = "5" -> 5 [] ch = "6" -> 6 [] ch = "7" -> 7
                  [] ch = "8" -> 8 [] ch = "9" -> 9

Lower == {"a", "b", "c", "d", "e", "f", "g", "h", "i", "j", "k", "l", "m",
          "n", "o", "p", "q", "r", "s", "t", "u", "v", "w", "x", "y", "z"}

Upper == {"A", "B", "C", "D", "E", "F", "G", "H", "I", "J", "K", "L", "M",
          "N", "O", "P", "Q", "R", "S", "T", "U", "V", "W", "X", "Y", "Z"}

\* The regex class \w.
WordChars == Lower \cup Upper \cup Digits \cup {"_"}

StartsWith(s, p) == Len(s) >= Len(p) /\ SubSeq(s, 1, Len(p)) = p

Drop(s, n) == SubSeq(s, n + 1, Len(s))

RECURSIVE DecimalValue(_)
\* The value of a sequence of digits.
DecimalValue(ds) == IF ds = <<>> THEN 0
                    ELSE 10 * DecimalValue(SubSeq(ds, 1, Len(ds) - 1)) + DigitVal(ds[Len(ds)])

RECURSIVE LeadingDigits(_)
LeadingDigits(s) == IF s = <<>> \/ Head(s) \notin Digits THEN <<>>
                    ELSE <<Head(s)>> \o LeadingDigits(Tail(s))

\* Text the upstream never sends a sign with: the sign of parseInt and of CAST.
Unsigned(s) == IF s # <<>> /\ Head(s) \in {"+", "-"} THEN Tail(s) ELSE s

Sign(s) == IF s # <<>> /\ Head(s) = "-" THEN -1 ELSE 1

\* JS parseInt(x): None is NaN.  x is a nullable text (undefined parses to NaN).
parseInt(x) == IF ~IsSome(x) THEN None
               ELSE LET ds == LeadingDigits(Unsigned(Val(x)))
                    IN IF ds = <<>> THEN None ELSE Some(Sign(Val(x)) * DecimalValue(ds))

\* JS Number(x): the whole text must be a number; "" is 0; undefined is NaN.
Number(x) == IF ~IsSome(x) THEN None
             ELSE IF Val(x) = <<>> THEN Some(0)
             ELSE LET u == Unsigned(Val(x))
                  IN IF u # <<>> /\ LeadingDigits(u) = u
                     THEN Some(Sign(Val(x)) * DecimalValue(u)) ELSE None

\* JS  n || 0  on a number: NaN and 0 are falsy.
OrZero(n) == IF IsSome(n) THEN Val(n) ELSE 0

\* JS  n || null  on a number.
OrNullNum(n) == IF IsSome(n) /\ Val(n) # 0 THEN n ELSE None

\* JS  s || null  on a nullable text: "" and undefined are falsy.
OrNullText(s) == IF IsSome(s) /\ Val(s) # <<>> THEN s ELSE None

(***************************************************************************)
(* extractUsername                                                         *)
(***************************************************************************)
Txt_http == <<"h", "t", "t", "p">>
Txt_sep == <<":", "/", "/">>
Txt_www == <<"w", "w", "w", ".">>
Txt_host == <<"y", "o", "u", "t", "u", "b", "e", ".", "c", "o", "m", "/">>
Txt_channelUC == <<"c", "h", "a", "n", "n", "e", "l", "/", "U", "C">>
Txt_c == <<"c", "/">>
Txt_user == <<"u", "s", "e", "r", "/">>

AllIn(s, S) == \A i \in 1..Len(s) : s[i] \in S

\* channel\/UC[\w-]{21}[AQgw]$
MatchChannelId(p) ==
  /\ Len(p) = Len(Txt_channelUC) + 22
  /\ StartsWith(p, Txt_channelUC)
  /\ AllIn(SubSeq(p, Len(Txt_channelUC) + 1, Len(p) - 1), WordChars \cup {"-"})
  /\ p[Len(p)] \in {"A", "Q", "g", "w"}

\* [\w@-]+$
MatchName(p) == p # <<>> /\ AllIn(p, WordChars \cup {"@", "-"})

\* (c\/|user\/)?[\w@-]+$
MatchHandle(p) ==
  \/ MatchName(p)
  \/ StartsWith(p, Txt_c) /\ MatchName(Drop(p, Len(Txt_c)))
  \/ StartsWith(p, Txt_user) /\ MatchName(Drop(p, Len(Txt_user)))

\* The text after ^https?:\/\/(www\.)?youtube\.com\/ , None when the prefix
\* does not match.
UrlPath(input) ==
  IF ~StartsWith(input, Txt_http) THEN None
  ELSE LET a == Drop(input, Len(Txt_http))
           b == IF StartsWith(a, <<"s">>) THEN Tail(a) ELSE a
       IN IF ~StartsWith(b, Txt_sep) THEN None
          ELSE LET d == Drop(b, Len(Txt_sep))
                   e == IF StartsWith(d, Txt_www) THEN Drop(d, Len(Txt_www)) ELSE d
               IN IF StartsWith(e, Txt_host) THEN Some(Drop(e, Len(Txt_host))) ELSE None

\* A parser that takes every text for a username.
AnyUsername(input) == Some(input)

\* input.startsWith('@') ? input : (input.match(urlRegex)?.[2] || null)
extractUsername(input) ==
  IF StartsWith(input, <<"@">>) THEN Some(input)
  ELSE LET p == UrlPath(input)
       IN IF IsSome(p) /\ (MatchChannelId(Val(p)) \/ MatchHandle(Val(p)))
          THEN p ELSE None

(***************************************************************************)
(* Program constants                                                       *)
(***************************************************************************)
\* QUOTA_COSTS.channels.list, .playlistItems.list, .videos.list
QUOTA_channels_list == 1
QUOTA_playlistItems_list == 1
QUOTA_videos_list == 1

\* getVideoStatistics: const batchSize = 50
batchSize == 50

\* pLimit(5)
concurrencyLimit == 5

\* youtube_cache.put(..., { expirationTtl: 3600 })
expirationTtl == 3600

(***************************************************************************)
(* State                                                                   *)
(***************************************************************************)
VARIABLES
  channels,         \* table channels: a set of rows
  videos,           \* table videos: a set of rows
  videoStatistics,  \* table video_statistics: rows in insertion order
  youtube_cache,    \* KV key 'channelStatistics': None, or Some([value, expiresAt, len])
  totalQuotaUsed,   \* the module-level counter
  now,              \* the clock behind CURRENT_TIMESTAMP and the KV's expiry
  ingest,           \* GET / requests: position and locals of each
  reader,           \* GET /statistics requests
  refresh,          \* POST /channels/refresh requests
  last,             \* the response returned last
  hist              \* history: requests started, clock steps, last successful append

vars == <<channels, videos, videoStatistics, youtube_cache, totalQuotaUsed, now,
          ingest, reader, refresh, last, hist>>

store == <<channels, videos, videoStatistics>>

(***************************************************************************)
(* The relational store: constraints of the schema and the statements      *)
(***************************************************************************)
HasChannel(tbl, id) == \E r \in tbl : r.id = id

HasVideo(tbl, id) == \E r \in tbl : r.id = id

\* The UNIQUE constraints of table channels a row would break against the
\* other rows: id, name, thumbnail, upload handle (0000) and the three
\* counters (0001).
ChannelUniqueViolation(others, row) ==
  \E r \in others :
    \/ r.id = row.id
    \/ r.channelName = row.channelName
    \/ r.thumbnail = row.thumbnail
    \/ r.channelUploadID = row.channelUploadID
    \/ r.followersCount = row.followersCount
    \/ r.viewsCount = row.viewsCount
    \/ r.videoCount = row.videoCount

\* A conflict clause that writes every column of the proposed row.
OverwriteRow(old, new, t) == new

\* What ON CONFLICT (youtube_id) DO UPDATE SET writes over the existing row.
InsertChannelOnConflict(old, new, t) ==
  [old EXCEPT !.thumbnail = new.thumbnail,
              !.channelUploadID = new.channelUploadID,
              !.channelName = new.channelName,
              !.updatedAt = t]

\* insertChannel's statement on table tbl at time t: [ok, table, row].
\* It throws (ok = FALSE) when a UNIQUE constraint is broken.
InsertChannelStmt(tbl, d, t) ==
  LET new == [id |-> d.id, channelName |-> d.customName, thumbnail |-> d.thumbnailHighUrl,
              channelUploadID |-> d.uploads, followersCount |-> d.followersCount,
              viewsCount |-> d.viewsCount, videoCount |-> d.videoCount,
              createdAt |-> t, updatedAt |-> t]
  IN IF HasChannel(tbl, d.id)
     THEN LET old == CHOOSE r \in tbl : r.id = d.id
              upd == InsertChannelOnConflict(old, new, t)
          IN IF ChannelUniqueViolation(tbl \ {old}, upd)
             THEN [ok |-> FALSE, table |-> tbl]
             ELSE [ok |-> TRUE, table |-> (tbl \ {old}) \cup {upd}]
     ELSE IF ChannelUniqueViolation(tbl, new)
          THEN [ok |-> FALSE, table |-> tbl]
          ELSE [ok |-> TRUE, table |-> tbl \cup {new}]

\* `https://www.youtube.com/watch?v=${video.videoId}`
WatchUrl(videoId) == <<"w", "a", "t", "c", "h", "?", "v", "=">> \o videoId

\* A row that names the video itself where its channel belongs.
VideoValueOrphan(v, channelId, t) ==
  [id |-> v.videoId, channelId |-> v.videoId, title |-> v.videoTitle,
   url |-> <<>>, thumbnailUrl |-> <<>>, createdAt |-> t, updatedAt |-> t]

\* The row insertVideos builds for one VideoDetails.
VideoValue(v, channelId, t) ==
  [id |-> v.videoId, channelId |-> channelId, title |-> v.videoTitle,
   url |-> WatchUrl(v.videoId),
   thumbnailUrl |-> IF IsSome(v.thumbnailUrl) /\ Val(v.thumbnailUrl) # <<>>
                    THEN Val(v.thumbnailUrl) ELSE <<>>,
   createdAt |-> t, updatedAt |-> t]

\* A conflict clause that replaces the whole row by the proposed one.
ReattachVideo(old, new, t) == new

\* What ON CONFLICT (video_id) DO UPDATE SET writes over the existing row.
InsertVideosOnConflict(old, new, t) ==
  [old EXCEPT !.title = new.title, !.thumbnailUrl = new.thumbnailUrl, !.updatedAt = t]

\* insertVideos' statement: [ok, table].  It throws on an empty VALUES list
\* (the query builder), when two proposed rows share an id (ON CONFLICT DO
\* UPDATE cannot affect a row a second time) and when the channel is missing
\* (foreign key).
InsertVideosStmt(tbl, chans, vs, channelId, t) ==
  LET ids == {vs[k].videoId : k \in 1..Len(vs)}
      new == {VideoValue(vs[k], channelId, t) : k \in 1..Len(vs)}
  IN IF \/ vs = <<>>
        \/ Cardinality(ids) # Len(vs)
        \/ ~HasChannel(chans, channelId)
     THEN [ok |-> FALSE, table |-> tbl]
     ELSE [ok |-> TRUE,
           table |-> {r \in tbl : r.id \notin ids}
                     \cup {InsertVideosOnConflict(r, CHOOSE n \in new : n.id = r.id, t) :
                             r \in {x \in tbl : x.id \in ids}}
                     \cup {n \in new : ~HasVideo(tbl, n.id)}]

\* An append that writes the first row of its list only.
FirstStatisticsValue(stats, t) ==
  [k \in 1..Min(1, Len(stats)) |->
     [videoId |-> stats[k].videoId, statistics |-> stats[k].statistics, recordedAt |-> t]]

\* The rows insertVideoStatistics appends.
StatisticsValues(stats, t) ==
  [k \in 1..Len(stats) |->
     [videoId |-> stats[k].videoId, statistics |-> stats[k].statistics, recordedAt |-> t]]

\* A statement that keeps only the rows it is given.
ReplaceStatisticsStmt(tbl, vids, stats, t) == [ok |-> TRUE, table |-> StatisticsValues(stats, t)]

\* insertVideoStatistics' statement: [ok, table].  It throws on an empty
\* VALUES list and when a row names a video that is not stored (foreign key).
InsertVideoStatisticsStmt(tbl, vids, stats, t) ==
  IF \/ stats = <<>>
     \/ \E k \in 1..Len(stats) : ~HasVideo(vids, stats[k].videoId)
  THEN [ok |-> FALSE, table |-> tbl]
  ELSE [ok |-> TRUE, table |-> tbl \o StatisticsValues(stats, t)]

\* An UPDATE that also clears the follower count and drops the other rows.
RefreshUpdateWide(tbl, channelId, res, t) ==
  [ok |-> TRUE,
   table |-> {[r EXCEPT !.followersCount = 0, !.updatedAt = t] : r \in {x \in tbl : x.id = channelId}}]

\* refreshChannelDetails' UPDATE ... WHERE youtube_id = channelId.  A field
\* the upstream left undefined is not part of SET.
RefreshUpdateStmt(tbl, channelId, res, t) ==
  IF ~HasChannel(tbl, channelId) THEN [ok |-> TRUE, table |-> tbl]
  ELSE LET old == CHOOSE r \in tbl : r.id = channelId
           upd == [old EXCEPT
                     !.channelName = IF IsSome(res.customUrl) THEN Val(res.customUrl) ELSE @,
                     !.thumbnail = IF IsSome(res.thumbnail) THEN Val(res.thumbnail) ELSE @,
                     !.channelUploadID = IF IsSome(res.uploads) THEN Val(res.uploads) ELSE @,
                     !.updatedAt = t]
       IN IF \E r \in tbl \ {old} : \/ r.channelName = upd.channelName
                                    \/ r.thumbnail = upd.thumbnail
                                    \/ r.channelUploadID = upd.channelUploadID
          THEN [ok |-> FALSE, table |-> tbl]
          ELSE [ok |-> TRUE, table |-> (tbl \ {old}) \cup {upd}]

(***************************************************************************)
(* The queries                                                             *)
(***************************************************************************)
\* The channel a stored video belongs to.
ChannelOfVideo(vids, videoId) == (CHOOSE v \in vids : v.id = videoId).channelId

RECURSIVE SumField(_, _, _, _, _)
\* The forEach of GET /statistics over the rows of
\*   channels LEFT JOIN videos LEFT JOIN video_statistics
\* that belong to channel channelId: every statistics row of every video of
\* the channel adds  parseInt(stats[field]) || 0.
SumField(vids, vstats, channelId, field, k) ==
  IF k = 0 THEN 0
  ELSE SumField(vids, vstats, channelId, field, k - 1)
       + (IF ChannelOfVideo(vids, vstats[k].videoId) = channelId
          THEN OrZero(parseInt(vstats[k].statistics[field])) ELSE 0)

\* channelStatistics of GET /statistics: one entry per channel row.  The
\* array's order is the row order of the unordered SELECT; the entries are
\* kept as a set.
ChannelStatistics(chans, vids, vstats) ==
  {[channelId |-> c.id, channelName |-> c.channelName,
    followersCount |-> c.followersCount, viewsCount |-> c.viewsCount,
    totalLikes |-> SumField(vids, vstats, c.id, "likeCount", Len(vstats)),
    totalComments |-> SumField(vids, vstats, c.id, "commentCount", Len(vstats))] :
     c \in chans}

\* The subquery latestVideoStatistics: MAX(recorded_at) GROUP BY video_id, for
\* a video id that has statistics rows.
LatestRecordedAt(vstats, videoId) ==
  LET ts == {vstats[k].recordedAt : k \in {j \in 1..Len(vstats) : vstats[j].videoId = videoId}}
  IN CHOOSE t \in ts : \A u \in ts : u <= t

\* The largest value of the INTEGER the ranking queries cast to.
MaxInteger == 2147483647

\* CAST(text AS INTEGER): NULL stays NULL, an integer text within 32 bits is
\* its value, any other text raises.
CastInteger(x) ==
  IF ~IsSome(x) THEN [ok |-> TRUE, value |-> None]
  ELSE LET u == Unsigned(Val(x))
           n == Sign(Val(x)) * DecimalValue(u)
       IN IF u # <<>> /\ LeadingDigits(u) = u /\ n <= MaxInteger /\ n >= -MaxInteger - 1
          THEN [ok |-> TRUE, value |-> Some(n)]
          ELSE [ok |-> FALSE, value |-> None]

\* COALESCE(v, 0)
Coalesce(v) == IF IsSome(v) THEN Val(v) ELSE 0

\* The rows that the ranking queries keep after their joins and WHERE: a video
\* with a statistics row of it whose recorded_at equals the subquery's
\* maximum (stat is the position of that row in the table).  A video without
\* statistics rows has NULL in the joined columns, and the WHERE drops it.
LatestRows(chans, vids, vstats, field) ==
  UNION {{[videoId |-> v.id, channelId |-> v.channelId,
           channelName |-> (CHOOSE c \in chans : c.id = v.channelId).channelName,
           title |-> v.title, stat |-> k,
           value |-> CastInteger(vstats[k].statistics[field])] :
            k \in {j \in 1..Len(vstats) :
                     /\ vstats[j].videoId = v.id
                     /\ vstats[j].recordedAt = LatestRecordedAt(vstats, v.id)}} :
         v \in vids}

\* The selected column of a row.
Metric(row) == Coalesce(row.value.value)

\* LIMIT limit without the ORDER BY: the rows in any order.
AnyRows(rows, limit) == {SubSeq(s, 1, Min(limit, Len(s))) : s \in Perms(rows)}

\* ORDER BY metric DESC LIMIT limit: the orders of equal metrics are the
\* database's choice.
TopRows(rows, limit) ==
  {SubSeq(s, 1, Min(limit, Len(s))) :
     s \in {q \in Perms(rows) : \A i, j \in 1..Len(q) : i < j => Metric(q[i]) >= Metric(q[j])}}

\* ORDER BY channel_id, metric DESC and the reduce that keeps the first row
\* of every channel: per channel, a row of maximal metric.
TopPerChannel(rows) ==
  LET ids == {r.channelId : r \in rows}
      best(c) == {r \in rows : r.channelId = c /\
                    \A q \in rows : q.channelId = c => Metric(q) <= Metric(r)}
  IN {S \in SUBSET rows : /\ \A c \in ids : Cardinality({r \in S : r.channelId = c}) = 1
                          /\ \A r \in S : r \in best(r.channelId)}

(***************************************************************************)
(* The KV cache: get / put with TTL / delete on the one key                *)
(***************************************************************************)
\* A cache that never has the key.
KvMiss(kv, t) == None

\* youtube_cache.get('channelStatistics', 'json'): the entry when it is
\* present and unexpired, else None (null).
KvGet(kv, t) == IF IsSome(kv) /\ t < Val(kv).expiresAt THEN kv ELSE None

\* A put whose entry lives one second.
KvPutShort(value, t, len) == Some([value |-> value, expiresAt |-> t + 1, len |-> len])

\* youtube_cache.put(key, JSON.stringify(value), { expirationTtl }).  The
\* value holds texts and finite numbers only, which JSON.stringify and the
\* 'json' read give back unchanged.  len is history: the number of statistics
\* rows the value was computed from.
KvPut(value, t, len) == Some([value |-> value, expiresAt |-> t + expirationTtl, len |-> len])

\* A delete that leaves the entry where it is.
KvKeep(kv) == kv

\* youtube_cache.delete('channelStatistics')
KvDelete(kv) == None

(***************************************************************************)
(* Requests: locals and responses                                          *)
(***************************************************************************)
NoDetails == [uploads |-> None, id |-> None, customName |-> None, followersCount |-> None,
              videoCount |-> None, viewsCount |-> None, thumbnailHighUrl |-> None]

NoResponse == [status |-> 0, body |-> "", quotaUsed |-> None, insertedCount |-> 0]

\* calls: history, the upstream calls this request has issued, by kind, the
\* cost it has charged itself, the videos it listed, the statistics
\* table's length after its append, and the batches whose videos.list call
\* failed.
NoCalls == [channels |-> 0, pages |-> 0, batches |-> 0, charged |-> 0, items |-> 0,
            appendedLen |-> 0, failedBatches |-> {}]

IdleIngest == [pc |-> "idle", username |-> <<>>, details |-> NoDetails, videos |-> <<>>,
               nextPageToken |-> None, batches |-> <<>>, stats |-> <<>>,
               resp |-> NoResponse, calls |-> NoCalls]

\* The request returns: c.json / c.text with the given status.
Returned(calls, status, body, quota, inserted) ==
  [IdleIngest EXCEPT !.pc = "done", !.calls = calls,
                     !.resp = [status |-> status, body |-> body, quotaUsed |-> quota,
                               insertedCount |-> inserted]]

\* A counter that charges every call twice.
trackQuotaTwice(total, cost) == total + cost + cost

\* function trackQuotaUsage(cost, endpoint) { totalQuotaUsed += cost; }
trackQuotaUsage(total, cost) == total + cost

\* History: request p has charged cost for the call that answered r (a failed
\* fetch is not charged).
Charge(p, r, cost) == IF r.kind = "fail" THEN p ELSE [p EXCEPT !.calls.charged = @ + cost]

\* The check of GET / on ChannelDetails: every field must be truthy.
DetailsUsable(d) ==
  /\ IsSome(d.id) /\ Val(d.id) # <<>>
  /\ IsSome(d.customName) /\ Val(d.customName) # <<>>
  /\ IsSome(d.thumbnailHighUrl) /\ Val(d.thumbnailHighUrl) # <<>>
  /\ IsSome(d.uploads) /\ Val(d.uploads) # <<>>
  /\ IsSome(d.followersCount) /\ Val(d.followersCount) # 0
  /\ IsSome(d.videoCount) /\ Val(d.videoCount) # 0
  /\ IsSome(d.viewsCount) /\ Val(d.viewsCount) # 0

\* getChannelDetailsFromDB: the row whose id is the given text, as ChannelDetails.
getChannelDetailsFromDB(tbl, id) ==
  IF HasChannel(tbl, id)
  THEN LET r == CHOOSE x \in tbl : x.id = id
       IN Some([uploads |-> Some(r.channelUploadID), id |-> Some(r.id),
                customName |-> Some(r.channelName),
                followersCount |-> Some(r.followersCount),
                viewsCount |-> Some(r.viewsCount), videoCount |-> Some(r.videoCount),
                thumbnailHighUrl |-> Some(r.thumbnail)])
  ELSE None

\* getUploadsChannelDetail's conversion of the upstream's first item.
DetailsOfResource(res) ==
  [uploads |-> OrNullText(res.uploads), customName |-> OrNullText(res.customUrl),
   id |-> OrNullText(res.id),
   followersCount |-> OrNullNum(Number(res.subscriberCount)),
   viewsCount |-> OrNullNum(Number(res.viewCount)),
   videoCount |-> OrNullNum(Number(res.videoCount)),
   thumbnailHighUrl |-> OrNullText(res.thumbnail)]

\* The arguments insertChannel gets: the checked details, unwrapped.
DetailsArgs(d) ==
  [id |-> Val(d.id), customName |-> Val(d.customName), thumbnailHighUrl |-> Val(d.thumbnailHighUrl),
   uploads |-> Val(d.uploads), followersCount |-> Val(d.followersCount),
   viewsCount |-> Val(d.viewsCount), videoCount |-> Val(d.videoCount)]

RECURSIVE Slices(_, _)
\* getVideoStatistics: videoIds.slice(i, i + batchSize) for i = 0, batchSize, ...
Slices(ids, size) ==
  IF ids = <<>> THEN <<>>
  ELSE <<SubSeq(ids, 1, Min(size, Len(ids)))>> \o Slices(Drop(ids, Min(size, Len(ids))), size)

(***************************************************************************)
(* History kept beside the program's state                                 *)
(*   started   requests that have started (the model's budget)             *)
(*   ticks     clock steps taken (the model's budget)                      *)
(*   returned  a request has returned since the clock last advanced        *)
(*   lastSuccessLen, lastDone, evicted: see IngestCacheDelete, ReadCacheGet*)
(* The variable last holds the response returned last, with the history of *)
(* the request that returned it; a slot whose request has returned is idle.*)
(***************************************************************************)
\* A request that arrives after another has returned arrives at a later
\* time: requests that share an instant overlap.
CanStart(budget) == hist.started < budget /\ ~hist.returned

\* Request i of GET / moves to p, under history h: a request that has
\* returned leaves its response in last and frees its slot.
IngestStep(i, p, h) ==
  /\ ingest' = [ingest EXCEPT ![i] = IF p.pc = "done" THEN IdleIngest ELSE p]
  /\ last' = IF p.pc = "done"
             THEN [kind |-> "ingest", status |-> p.resp.status, body |-> p.resp.body,
                   quotaUsed |-> p.resp.quotaUsed, insertedCount |-> p.resp.insertedCount,
                   calls |-> p.calls]
             ELSE last
  /\ hist' = IF p.pc = "done" THEN [h EXCEPT !.returned = TRUE] ELSE h

(***************************************************************************)
(* GET / : one action per suspension point of the handler                  *)
(***************************************************************************)
\* Entry: the counter is reset, the url parameter checked and parsed, and
\* getUploadsChannelDetail's database lookup is issued.
IngestStart(i, url, budget) ==
  /\ ingest[i].pc = "idle"
  /\ CanStart(budget)
  /\ totalQuotaUsed' = 0
  /\ IngestStep(i,
       IF ~IsSome(url) \/ Val(url) = <<>>
       THEN Returned(NoCalls, 400, "URL or username is missing", None, 0)
       ELSE IF ~IsSome(extractUsername(Val(url)))
       THEN Returned(NoCalls, 400, "Invalid input", None, 0)
       ELSE [IdleIngest EXCEPT !.pc = "dbLookup", !.username = Val(extractUsername(Val(url)))],
       [hist EXCEPT !.started = @ + 1])
  /\ UNCHANGED <<store, youtube_cache, now, reader, refresh>>

\* The step after ChannelDetails is known: the 400 of line 1026, or the first
\* playlist page is requested.
AfterDetails(p, d) ==
  IF DetailsUsable(d)
  THEN [p EXCEPT !.pc = "playlist", !.details = d, !.calls.pages = @ + 1]
  ELSE Returned(p.calls, 400, "Invalid input", None, 0)

\* getChannelDetailsFromDB answers: a stored channel whose id is the username
\* is used as it is; otherwise the upstream is asked.  A failing SELECT
\* throws to the handler's catch.
IngestDbLookup(i, dbOk) ==
  /\ ingest[i].pc = "dbLookup"
  /\ LET p == ingest[i]
         d == getChannelDetailsFromDB(channels, p.username)
     IN IngestStep(i,
          IF ~dbOk THEN Returned(p.calls, 500, "Internal Server Error", None, 0)
          ELSE IF IsSome(d) THEN AfterDetails(p, Val(d))
          ELSE [p EXCEPT !.pc = "fetchChannel", !.calls.channels = @ + 1],
          hist)
  /\ UNCHANGED <<store, youtube_cache, totalQuotaUsed, now, reader, refresh>>

\* The channels.list call answers r: a failed fetch is caught and gives null
\* details without a charge; a response is charged and converted.
IngestFetchChannel(i, r) ==
  /\ ingest[i].pc = "fetchChannel"
  /\ totalQuotaUsed' = IF r.kind = "fail" THEN totalQuotaUsed
                       ELSE trackQuotaUsage(totalQuotaUsed, QUOTA_channels_list)
  /\ IngestStep(i,
       AfterDetails(Charge(ingest[i], r, QUOTA_channels_list),
                    IF r.kind = "ok" /\ r.items # <<>>
                    THEN DetailsOfResource(r.items[1]) ELSE NoDetails),
       hist)
  /\ UNCHANGED <<store, youtube_cache, now, reader, refresh>>

\* A push that keeps the first item of a page only.
FirstVideo(items) ==
  [k \in 1..Min(1, Len(items)) |->
     [videoId |-> items[k].videoId, videoTitle |-> items[k].title,
      thumbnailUrl |-> items[k].thumbnail]]

\* videos.push(...data.items.map(...)) of getPlaylistVideos.
PageVideos(items) ==
  [k \in 1..Len(items) |->
     [videoId |-> items[k].videoId, videoTitle |-> items[k].title,
      thumbnailUrl |-> items[k].thumbnail]]

\* getVideoStatistics: one pending fetch per slice of the ids.
NewBatches(vs) ==
  LET sl == Slices([k \in 1..Len(vs) |-> vs[k].videoId], batchSize)
  IN [b \in 1..Len(sl) |-> [ids |-> sl[b], pending |-> TRUE, result |-> <<>>]]

\* A listing that asks for a failed page again.
IngestRetryPage(i, r) ==
  /\ ingest[i].pc = "playlist"
  /\ r.kind # "page"
  /\ ingest' = [ingest EXCEPT ![i].calls.pages = @ + 1]
  /\ UNCHANGED <<store, youtube_cache, totalQuotaUsed, now, reader, refresh, last, hist>>

\* A playlistItems.list call answers r.  A failed fetch, or a body without
\* items, throws to the handler's catch (the body was charged first).  A page
\* is charged and appended; with a token the next page is requested, without
\* one the listing ends: no video ends the request, otherwise every
\* statistics batch is requested at once.
IngestFetchPage(i, r) ==
  /\ ingest[i].pc = "playlist"
  /\ totalQuotaUsed' = IF r.kind = "fail" THEN totalQuotaUsed
                       ELSE trackQuotaUsage(totalQuotaUsed, QUOTA_playlistItems_list)
  /\ LET p == Charge(ingest[i], r, QUOTA_playlistItems_list)
         vs == p.videos \o PageVideos(r.items)
     IN IngestStep(i,
          IF r.kind # "page" THEN Returned(p.calls, 500, "Internal Server Error", None, 0)
          ELSE IF IsSome(r.nextPageToken)
          THEN [p EXCEPT !.videos = vs, !.nextPageToken = r.nextPageToken,
                         !.calls.pages = @ + 1]
          ELSE IF vs = <<>>
          THEN Returned(p.calls, 200, "No videos found in the playlist.", None, 0)
          ELSE [p EXCEPT !.pc = "stats", !.videos = vs, !.nextPageToken = None,
                         !.batches = NewBatches(vs),
                         !.calls.batches = Len(NewBatches(vs)),
                         !.calls.items = Len(vs)],
          hist)
  /\ UNCHANGED <<store, youtube_cache, now, reader, refresh>>

\* fetchVideoStatisticsBatch's mapping of data.items (recordedAt: new Date()
\* is replaced by CURRENT_TIMESTAMP at the insert and is not kept).
BatchResult(r) ==
  IF r.kind = "ok"
  THEN [k \in 1..Len(r.items) |-> [videoId |-> r.items[k].id, statistics |-> r.items[k].statistics]]
  ELSE <<>>

\* The videos.list call of batch b answers r: a failed fetch is caught and
\* gives [] without a charge; a response is charged, and a body without items
\* gives [].  When the last batch has answered, Promise.all resolves, the
\* results are flattened in batch order and insertChannel is issued.
IngestBatchDone(i, b, r) ==
  /\ ingest[i].pc = "stats"
  /\ b \in 1..Len(ingest[i].batches)
  /\ ingest[i].batches[b].pending
  /\ totalQuotaUsed' = IF r.kind = "fail" THEN totalQuotaUsed
                       ELSE trackQuotaUsage(totalQuotaUsed, QUOTA_videos_list)
  /\ LET p == [Charge(ingest[i], r, QUOTA_videos_list) EXCEPT
                 !.calls.failedBatches = IF r.kind = "fail" THEN @ \cup {b} ELSE @]
         bs == [p.batches EXCEPT ![b] = [@ EXCEPT !.pending = FALSE, !.result = BatchResult(r)]]
     IN IngestStep(i,
          IF \E k \in 1..Len(bs) : bs[k].pending
          THEN [p EXCEPT !.batches = bs]
          ELSE [p EXCEPT !.pc = "insertChannel", !.batches = <<>>,
                         !.stats = Flat([k \in 1..Len(bs) |-> bs[k].result])],
          hist)
  /\ UNCHANGED <<store, youtube_cache, now, reader, refresh>>

\* insertChannel's statement runs; a throw ends the request with 500.
IngestInsertChannel(i, dbOk) ==
  /\ ingest[i].pc = "insertChannel"
  /\ LET p == ingest[i]
         res == InsertChannelStmt(channels, DetailsArgs(p.details), now)
     IN IF dbOk /\ res.ok
        THEN /\ channels' = res.table
             /\ IngestStep(i, [p EXCEPT !.pc = "insertVideos"], hist)
        ELSE /\ channels' = channels
             /\ IngestStep(i, Returned(p.calls, 500, "Internal Server Error", None, 0), hist)
  /\ UNCHANGED <<videos, videoStatistics, youtube_cache, totalQuotaUsed, now, reader, refresh>>

\* insertVideos' statement runs.
IngestInsertVideos(i, dbOk) ==
  /\ ingest[i].pc = "insertVideos"
  /\ LET p == ingest[i]
         res == InsertVideosStmt(videos, channels, p.videos, Val(p.details.id), now)
     IN IF dbOk /\ res.ok
        THEN /\ videos' = res.table
             /\ IngestStep(i, [p EXCEPT !.pc = "insertStats"], hist)
        ELSE /\ videos' = videos
             /\ IngestStep(i, Returned(p.calls, 500, "Internal Server Error", None, 0), hist)
  /\ UNCHANGED <<channels, videoStatistics, youtube_cache, totalQuotaUsed, now, reader, refresh>>

\* An append whose failure takes back the channel and the videos of the
\* request.
IngestInsertStatsRollback(i, dbOk) ==
  /\ ingest[i].pc = "insertStats"
  /\ ~dbOk
  /\ channels' = {c \in channels : c.id # Val(ingest[i].details.id)}
  /\ videos' = {v \in videos : v.channelId # Val(ingest[i].details.id)}
  /\ videoStatistics' = <<>>
  /\ IngestStep(i, Returned(ingest[i].calls, 500, "Internal Server Error", None, 0), hist)
  /\ UNCHANGED <<youtube_cache, totalQuotaUsed, now, reader, refresh>>

\* insertVideoStatistics' statement runs; it returns videoStats.length.
IngestInsertStats(i, dbOk) ==
  /\ ingest[i].pc = "insertStats"
  /\ LET p == ingest[i]
         res == InsertVideoStatisticsStmt(videoStatistics, videos, p.stats, now)
     IN IF dbOk /\ res.ok
        THEN /\ videoStatistics' = res.table
             /\ IngestStep(i, [p EXCEPT !.pc = "cacheDelete",
                                        !.resp.insertedCount = Len(p.stats),
                                        !.calls.appendedLen = Len(res.table)], hist)
        ELSE /\ videoStatistics' = videoStatistics
             /\ IngestStep(i, Returned(p.calls, 500, "Internal Server Error", None, 0), hist)
  /\ UNCHANGED <<channels, videos, youtube_cache, totalQuotaUsed, now, reader, refresh>>

\* The cache key is deleted and the request returns 200 with quotaUsed read
\* from the counter; a failing delete ends the request with 500.  History:
\* the longest statistics table a successful ingestion has left, and whether
\* a live entry was deleted.
IngestCacheDelete(i, kvOk) ==
  /\ ingest[i].pc = "cacheDelete"
  /\ LET p == ingest[i]
     IN IF kvOk
        THEN /\ youtube_cache' = KvDelete(youtube_cache)
             /\ IngestStep(i, Returned(p.calls, 200, "json", Some(totalQuotaUsed),
                                       p.resp.insertedCount),
                           [hist EXCEPT !.lastSuccessLen = Max(@, p.calls.appendedLen),
                                        !.lastDone = "ingested",
                                        !.evicted = IsSome(KvGet(youtube_cache, now))])
        ELSE /\ youtube_cache' = youtube_cache
             /\ IngestStep(i, Returned(p.calls, 500, "Internal Server Error", None, 0), hist)
  /\ UNCHANGED <<store, totalQuotaUsed, now, reader, refresh>>

(***************************************************************************)
(* GET /statistics                                                         *)
(***************************************************************************)
IdleReader == [pc |-> "idle", data |-> {}, len |-> 0, status |-> 0, source |-> "",
               floor |-> 0, after |-> "", evicted |-> FALSE]

\* Request r of GET /statistics moves to p.
ReadStep(r, p, h) ==
  /\ reader' = [reader EXCEPT ![r] = IF p.pc = "done" THEN IdleReader ELSE p]
  /\ last' = IF p.pc = "done"
             THEN [kind |-> "read", status |-> p.status, source |-> p.source, data |-> p.data,
                   len |-> p.len, floor |-> p.floor, after |-> p.after, evicted |-> p.evicted]
             ELSE last
  /\ hist' = IF p.pc = "done" THEN [h EXCEPT !.returned = TRUE, !.lastDone = "read"] ELSE h

\* Entry and the cache read: a hit returns the cached value with source
\* 'cache'; a miss goes on to the database.  History: floor is the longest
\* statistics table left by an ingestion that has already returned success,
\* after is the kind of the request that returned last, len is the length of
\* the statistics table the returned value was computed from.
ReadCacheGet(r, budget) ==
  /\ reader[r].pc = "idle"
  /\ CanStart(budget)
  /\ LET hit == KvGet(youtube_cache, now)
         h == [IdleReader EXCEPT !.floor = hist.lastSuccessLen, !.after = hist.lastDone,
                                 !.evicted = hist.evicted]
     IN ReadStep(r,
          IF IsSome(hit)
          THEN [h EXCEPT !.pc = "done", !.data = Val(hit).value, !.len = Val(hit).len,
                         !.status = 200, !.source = "cache"]
          ELSE [h EXCEPT !.pc = "query"],
          [hist EXCEPT !.started = @ + 1])
  /\ UNCHANGED <<store, youtube_cache, totalQuotaUsed, now, ingest, refresh>>

\* The joined SELECT runs and the rows are aggregated; a throw gives 500.
ReadQuery(r, dbOk) ==
  /\ reader[r].pc = "query"
  /\ ReadStep(r,
       IF dbOk
       THEN [reader[r] EXCEPT !.pc = "put",
                              !.data = ChannelStatistics(channels, videos, videoStatistics),
                              !.len = Len(videoStatistics)]
       ELSE [reader[r] EXCEPT !.pc = "done", !.status = 500],
       hist)
  /\ UNCHANGED <<store, youtube_cache, totalQuotaUsed, now, ingest, refresh>>

\* The value is put under the key with the TTL and returned with source
\* 'database'; a failing put gives 500.
ReadPut(r, kvOk) ==
  /\ reader[r].pc = "put"
  /\ youtube_cache' = IF kvOk THEN KvPut(reader[r].data, now, reader[r].len) ELSE youtube_cache
  /\ ReadStep(r,
       IF kvOk THEN [reader[r] EXCEPT !.pc = "done", !.status = 200, !.source = "database"]
       ELSE [reader[r] EXCEPT !.pc = "done", !.status = 500, !.data = {}],
       hist)
  /\ UNCHANGED <<store, totalQuotaUsed, now, ingest, refresh>>

(***************************************************************************)
(* POST /channels/refresh                                                  *)
(***************************************************************************)
\* failed, charged: history, the tasks whose upstream call failed and the cost
\* this request has charged itself.
IdleRefresh == [pc |-> "idle", allChannels |-> <<>>, tasks |-> <<>>, responded |-> FALSE,
                failed |-> {}, charged |-> 0]

\* Entry: the counter is reset and the SELECT of all channels is issued.
RefreshStart(f, budget) ==
  /\ refresh[f].pc = "idle"
  /\ CanStart(budget)
  /\ hist' = [hist EXCEPT !.started = @ + 1]
  /\ totalQuotaUsed' = 0
  /\ refresh' = [refresh EXCEPT ![f] = [IdleRefresh EXCEPT !.pc = "select"]]
  /\ UNCHANGED <<store, youtube_cache, now, ingest, reader, last>>

InFlight(tasks) == Cardinality({k \in 1..Len(tasks) : tasks[k].st \in {"fetching", "updating"}})

Settled(tasks) == \A k \in 1..Len(tasks) : tasks[k].st \in {"fulfilled", "rejected"}

\* A limiter without a ceiling: every queued task starts at once.
StartAll(tasks) ==
  [k \in 1..Len(tasks) |->
     IF tasks[k].st = "queued" THEN [tasks[k] EXCEPT !.st = "fetching"] ELSE tasks[k]]

RECURSIVE Dequeue(_)
\* p-limit: while fewer than concurrencyLimit tasks run, the first queued
\* task starts (its fetch is issued).
Dequeue(tasks) ==
  LET queued == {k \in 1..Len(tasks) : tasks[k].st = "queued"}
  IN IF queued = {} \/ InFlight(tasks) >= concurrencyLimit THEN tasks
     ELSE LET k == CHOOSE q \in queued : \A o \in queued : q <= o
          IN Dequeue([tasks EXCEPT ![k].st = "fetching"])

\* The response of POST /channels/refresh.
RefreshResponse(p, status, quota) ==
  [kind |-> "refresh", status |-> status, quotaUsed |-> Some(quota),
   updatedChannels |-> IF status = 200 THEN p.allChannels ELSE <<>>,
   known |-> Len(p.allChannels), charged |-> p.charged, failed |-> p.failed]

\* Request f of POST /channels/refresh moves to p.  Once Promise.all has an
\* outcome the handler returns: the first rejection gives 500 at once, the
\* fulfilment of every task gives 200; both carry the counter as it is then.
\* The tasks not yet settled keep running; the slot is free when all have
\* settled.
RefreshStep(f, p, quota) ==
  LET rejected == \E k \in 1..Len(p.tasks) : p.tasks[k].st = "rejected"
      returns == ~p.responded /\ (rejected \/ Settled(p.tasks))
  IN /\ refresh' = [refresh EXCEPT ![f] =
          IF Settled(p.tasks) THEN IdleRefresh
          ELSE [p EXCEPT !.responded = @ \/ returns]]
     /\ last' = IF returns THEN RefreshResponse(p, IF rejected THEN 500 ELSE 200, quota)
                ELSE last
     /\ hist' = IF returns THEN [hist EXCEPT !.returned = TRUE] ELSE hist

\* The SELECT answers with the rows in some order; every channel becomes a
\* task of the limiter.  A throw gives 500.
RefreshSelect(f, order, dbOk) ==
  /\ refresh[f].pc = "select"
  /\ order \in Perms(channels)
  /\ RefreshStep(f,
       IF ~dbOk
       THEN [refresh[f] EXCEPT !.tasks = <<[st |-> "rejected", res |-> None]>>]
       ELSE [refresh[f] EXCEPT
               !.pc = "running",
               !.allChannels = [k \in 1..Len(order) |->
                                  [id |-> order[k].id, name |-> order[k].channelName]],
               !.tasks = Dequeue([k \in 1..Len(order) |-> [st |-> "queued", res |-> None]])],
       totalQuotaUsed)
  /\ UNCHANGED <<store, youtube_cache, totalQuotaUsed, now, ingest, reader>>

\* A fetch that takes an answer without items for a failure.
RefreshFetchStrict(f, k, r) ==
  /\ refresh[f].pc = "running"
  /\ k \in 1..Len(refresh[f].tasks)
  /\ refresh[f].tasks[k].st = "fetching"
  /\ totalQuotaUsed' = IF r.kind = "fail" THEN totalQuotaUsed
                       ELSE trackQuotaUsage(totalQuotaUsed, QUOTA_channels_list)
  /\ LET p == refresh[f]
     IN RefreshStep(f,
          IF r.kind = "fail" \/ r.items = <<>>
          THEN [p EXCEPT !.failed = @ \cup {k},
                         !.tasks = Dequeue([p.tasks EXCEPT ![k].st = "rejected"])]
          ELSE [p EXCEPT !.charged = @ + QUOTA_channels_list,
                         !.tasks[k] = [st |-> "updating", res |-> Some(r.items[1])]],
          totalQuotaUsed')
  /\ UNCHANGED <<store, youtube_cache, now, ingest, reader>>

\* refreshChannelDetails: the channels.list call of task k answers r.  A
\* failed fetch is rethrown; a response is charged, and with an item the
\* UPDATE is issued, without one the task is over.
RefreshFetch(f, k, r) ==
  /\ refresh[f].pc = "running"
  /\ k \in 1..Len(refresh[f].tasks)
  /\ refresh[f].tasks[k].st = "fetching"
  /\ totalQuotaUsed' = IF r.kind = "fail" THEN totalQuotaUsed
                       ELSE trackQuotaUsage(totalQuotaUsed, QUOTA_channels_list)
  /\ LET p == refresh[f]
     IN RefreshStep(f,
          IF r.kind = "fail"
          THEN [p EXCEPT !.failed = @ \cup {k},
                         !.tasks = Dequeue([p.tasks EXCEPT ![k].st = "rejected"])]
          ELSE IF r.items # <<>>
          THEN [p EXCEPT !.charged = @ + QUOTA_channels_list,
                         !.tasks[k] = [st |-> "updating", res |-> Some(r.items[1])]]
          ELSE [p EXCEPT !.charged = @ + QUOTA_channels_list,
                         !.tasks = Dequeue([p.tasks EXCEPT ![k].st = "fulfilled"])],
          totalQuotaUsed')
  /\ UNCHANGED <<store, youtube_cache, now, ingest, reader>>

\* The UPDATE of task k runs; a throw is rethrown.
RefreshUpdate(f, k, dbOk) ==
  /\ refresh[f].pc = "running"
  /\ k \in 1..Len(refresh[f].tasks)
  /\ refresh[f].tasks[k].st = "updating"
  /\ LET p == refresh[f]
         res == RefreshUpdateStmt(channels, p.allChannels[k].id, Val(p.tasks[k].res), now)
         ok == dbOk /\ res.ok
     IN /\ channels' = IF ok THEN res.table ELSE channels
        /\ RefreshStep(f,
             [p EXCEPT !.tasks = Dequeue([p.tasks EXCEPT ![k] =
                          [st |-> IF ok THEN "fulfilled" ELSE "rejected", res |-> None]])],
             totalQuotaUsed)
  /\ UNCHANGED <<videos, videoStatistics, youtube_cache, totalQuotaUsed, now, ingest, reader>>

(***************************************************************************)
(* GET /videos/top-views, /videos/top-likes, /videos/top-comments and      *)
(* GET /videos/top-channel-views: one query each, then the response        *)
(***************************************************************************)
\* limit = parseInt(c.req.query('limit') || '5', 10)
LimitOf(q) == parseInt(IF IsSome(q) /\ Val(q) # <<>> THEN q ELSE Some(<<"5">>))

\* The three top-N handlers differ in the statistics field they select.  A
\* query that raises gives 500.
TopVideos(field, q, budget) ==
  /\ CanStart(budget)
  /\ IsSome(LimitOf(q))
  /\ LET rows == LatestRows(channels, videos, videoStatistics, field)
     IN IF \A r \in rows : r.value.ok
        THEN \E data \in TopRows(rows, Val(LimitOf(q))) :
               last' = [kind |-> "top", field |-> field, status |-> 200, data |-> data,
                        limit |-> Val(LimitOf(q))]
        ELSE last' = [kind |-> "top", field |-> field, status |-> 500, data |-> <<>>,
                      limit |-> Val(LimitOf(q))]
  /\ hist' = [hist EXCEPT !.started = @ + 1, !.returned = TRUE]
  /\ UNCHANGED <<store, youtube_cache, totalQuotaUsed, now, ingest, reader, refresh>>

TopChannelViews(budget) ==
  /\ CanStart(budget)
  /\ LET rows == LatestRows(channels, videos, videoStatistics, "viewCount")
     IN IF \A r \in rows : r.value.ok
        THEN \E data \in TopPerChannel(rows) :
               last' = [kind |-> "topChannel", status |-> 200, data |-> data]
        ELSE last' = [kind |-> "topChannel", status |-> 500, data |-> {}]
  /\ hist' = [hist EXCEPT !.started = @ + 1, !.returned = TRUE]
  /\ UNCHANGED <<store, youtube_cache, totalQuotaUsed, now, ingest, reader, refresh>>

(***************************************************************************)
(* Time                                                                    *)
(***************************************************************************)
\* The clock advances by d.
Tick(d, budget) ==
  /\ hist.ticks < budget
  /\ now' = now + d
  /\ hist' = [hist EXCEPT !.ticks = @ + 1, !.returned = FALSE]
  /\ UNCHANGED <<store, youtube_cache, totalQuotaUsed, ingest, reader, refresh, last>>

(***************************************************************************)
(* The upstream: what its calls may answer                                 *)
(***************************************************************************)
At_a == <<"@", "a">>
At_b == <<"@", "b">>
UC1 == <<"U", "C", "1">>
UC2 == <<"U", "C", "2">>
UU1 == <<"U", "U", "1">>
UU2 == <<"U", "U", "2">>

Resource(id, name, thumb, uploads, subs, views, vids) ==
  [id |-> Some(id), customUrl |-> Some(name), thumbnail |-> Some(thumb), uploads |-> Some(uploads),
   subscriberCount |-> Some(subs), viewCount |-> Some(views), videoCount |-> Some(vids)]

ResourceA == Resource(UC1, At_a, <<"t", "1">>, UU1, <<"5">>, <<"7">>, <<"2">>)
ResourceB == Resource(UC2, At_b, <<"t", "2">>, UU2, <<"6">>, <<"8">>, <<"1">>)

Failed == [kind |-> "fail", items |-> <<>>]

Found(items) == [kind |-> "ok", items |-> items]

\* channels.list?forHandle=username
LookupByHandle(username) ==
  {Failed, Found(<<>>)}
  \cup (IF username = At_a THEN {Found(<<ResourceA>>)} ELSE {})
  \cup (IF username = At_b THEN {Found(<<ResourceB>>)} ELSE {})

\* channels.list?id=channelId
LookupById(id) ==
  {Failed, Found(<<>>)}
  \cup (IF id = UC1 THEN {Found(<<ResourceA>>)} ELSE {})
  \cup (IF id = UC2 THEN {Found(<<ResourceB>>)} ELSE {})

Item(id, title) == [videoId |-> id, title |-> title, thumbnail |-> Some(<<"i">> \o id)]

Page(items, next) == [kind |-> "page", items |-> items, nextPageToken |-> next]

FailedPage == [kind |-> "fail", items |-> <<>>, nextPageToken |-> None]

ErrorPage == [kind |-> "error", items |-> <<>>, nextPageToken |-> None]

V1 == <<"v", "1">>
V2 == <<"v", "2">>
V3 == <<"v", "3">>

\* playlistItems.list?playlistId=uploads[&pageToken=token]
Pages(uploads, token) ==
  {FailedPage}
  \cup (IF uploads = Some(UU1) /\ token = None
        THEN {Page(<<Item(V1, <<"x">>), Item(V2, <<"y">>)>>, None)} ELSE {})
  \cup (IF uploads = Some(UU2) /\ token = None
        THEN {Page(<<Item(V3, <<"z">>)>>, None)} ELSE {})

Stat(views, likes, comments) ==
  [viewCount |-> Some(views), likeCount |-> Some(likes), commentCount |-> Some(comments)]

StatLow == Stat(<<"5">>, <<"1", "0">>, <<"1">>)
StatHigh == Stat(<<"9">>, <<"3", "0">>, <<"2">>)

StatItems(ids, st) == [k \in 1..Len(ids) |-> [id |-> ids[k], statistics |-> st]]

\* videos.list?id=ids: a failure, or every id with the one or the other
\* statistics.
StatsWhole(ids) == {Failed, Found(StatItems(ids, StatLow)), Found(StatItems(ids, StatHigh))}

\* The same, or the first id alone (the upstream leaves out what it does not
\* show).
StatsAnswers(ids) == StatsWhole(ids) \cup {Found(StatItems(SubSeq(ids, 1, 1), StatLow))}

Urls == {Some(At_a), Some(<<"x">>)}

\* The statistics field of a top-N handler, and its limit parameter.
Fields == {"viewCount", "likeCount", "commentCount"}
Limits == {None, Some(<<"1">>)}

(***************************************************************************)
(* The system: requests overlapping freely                                 *)
(***************************************************************************)
Ingests == {1, 2}
Readers == {1, 2}
Refreshers == {1}

\* Requests the model lets start, and clock steps it lets pass.
MaxRequests == 3
MaxTicks == 2

Init ==
  /\ channels = {}
  /\ videos = {}
  /\ videoStatistics = <<>>
  /\ youtube_cache = None
  /\ totalQuotaUsed = 0
  /\ now = 0
  /\ ingest = [i \in Ingests |-> IdleIngest]
  /\ reader = [r \in Readers |-> IdleReader]
  /\ refresh = [f \in Refreshers |-> IdleRefresh]
  /\ last = [kind |-> "none"]
  /\ hist = [started |-> 0, ticks |-> 0, returned |-> FALSE,
             lastSuccessLen |-> 0, lastDone |-> "", evicted |-> FALSE, dropped |-> 0]

\* A request takes the lowest slot that is free.
LowestFree(procs, p) == \A q \in DOMAIN procs : q < p => procs[q].pc # "idle"

Next ==
  \/ \E i \in Ingests, url \in Urls : LowestFree(ingest, i) /\ IngestStart(i, url, MaxRequests)
  \/ \E i \in Ingests : IngestDbLookup(i, TRUE)
  \/ \E i \in Ingests : \E r \in LookupByHandle(ingest[i].username) : IngestFetchChannel(i, r)
  \/ \E i \in Ingests : \E r \in Pages(ingest[i].details.uploads, ingest[i].nextPageToken) :
        IngestFetchPage(i, r)
  \/ \E i \in Ingests : \E b \in 1..Len(ingest[i].batches) :
        \E r \in StatsWhole(ingest[i].batches[b].ids) : IngestBatchDone(i, b, r)
  \/ \E i \in Ingests : IngestInsertChannel(i, TRUE)
  \/ \E i \in Ingests : IngestInsertVideos(i, TRUE)
  \/ \E i \in Ingests : IngestInsertStats(i, TRUE)
  \/ \E i \in Ingests : IngestCacheDelete(i, TRUE)
  \/ \E r \in Readers : LowestFree(reader, r) /\ ReadCacheGet(r, MaxRequests)
  \/ \E r \in Readers : ReadQuery(r, TRUE)
  \/ \E r \in Readers : ReadPut(r, TRUE)
  \/ \E f \in Refreshers : RefreshStart(f, MaxRequests)
  \/ \E f \in Refreshers : \E order \in Perms(channels) : RefreshSelect(f, order, TRUE)
  \/ \E f \in Refreshers : \E k \in 1..Len(refresh[f].tasks) :
        \E r \in LookupById(refresh[f].allChannels[k].id) : RefreshFetch(f, k, r)
  \/ \E f \in Refreshers : \E k \in 1..Len(refresh[f].tasks) : RefreshUpdate(f, k, TRUE)
  \/ TopVideos("viewCount", None, MaxRequests)
  \/ TopChannelViews(MaxRequests)
  \/ hist.returned /\ Tick(1, MaxTicks)

Spec == Init /\ [][Next]_vars

(***************************************************************************)
(* The system with one request at a time                                   *)
(***************************************************************************)
\* No request is in flight.
Quiet ==
  /\ \A i \in Ingests : ingest[i].pc = "idle"
  /\ \A r \in Readers : reader[r].pc = "idle"
  /\ \A f \in Refreshers : refresh[f].pc = "idle"

UrlsSeq == {None, Some(At_a), Some(At_b), Some(<<"x">>)}

NextSeq ==
  \/ \E url \in UrlsSeq : Quiet /\ IngestStart(1, url, MaxRequests)
  \/ IngestDbLookup(1, TRUE)
  \/ \E r \in LookupByHandle(ingest[1].username) : IngestFetchChannel(1, r)
  \/ \E r \in Pages(ingest[1].details.uploads, ingest[1].nextPageToken) \cup {ErrorPage} :
        IngestFetchPage(1, r)
  \/ \E b \in 1..Len(ingest[1].batches) :
        \E r \in StatsAnswers(ingest[1].batches[b].ids) : IngestBatchDone(1, b, r)
  \/ IngestInsertChannel(1, TRUE)
  \/ IngestInsertVideos(1, TRUE)
  \/ IngestInsertStats(1, TRUE)
  \/ IngestCacheDelete(1, TRUE)
  \/ Quiet /\ ReadCacheGet(1, MaxRequests)
  \/ ReadQuery(1, TRUE)
  \/ ReadPut(1, TRUE)
  \/ Quiet /\ RefreshStart(1, MaxRequests)
  \/ \E order \in Perms(channels) : RefreshSelect(1, order, TRUE)
  \/ \E k \in 1..Len(refresh[1].tasks) :
        \E r \in LookupById(refresh[1].allChannels[k].id) : RefreshFetch(1, k, r)
  \/ \E k \in 1..Len(refresh[1].tasks) : RefreshUpdate(1, k, TRUE)
  \/ \E field \in Fields, q \in Limits : Quiet /\ TopVideos(field, q, MaxRequests)
  \/ Quiet /\ TopChannelViews(MaxRequests)
  \/ \E d \in {1, expirationTtl} : Quiet /\ hist.returned /\ Tick(d, MaxTicks)

SpecSeq == Init /\ [][NextSeq]_vars

(***************************************************************************)
(* Ingestions with identifiers of every form, and rollup reads, one        *)
(* request at a time                                                       *)
(***************************************************************************)
\* Identifiers that neither start with '@' nor are a URL of the grammar: no
\* scheme, another host, no path, a c/ prefix without a handle, a channel id
\* that is too short, one that ends in another character than A, Q, g, w,
\* and a handle followed by a further path.
InvalidUrls ==
  LET https == Txt_http \o <<"s">> \o Txt_sep
  IN {<<"x">>,
      Txt_host \o At_a,
      https \o <<"y", "o", "u", "t", "u", ".", "b", "e", "/">> \o At_a,
      https \o Txt_host,
      https \o Txt_host \o Txt_c,
      https \o Txt_www \o Txt_host \o Txt_channelUC \o <<"1">>,
      https \o Txt_host \o Txt_channelUC \o [k \in 1..21 |-> "a"] \o <<"x">>,
      https \o Txt_host \o At_a \o <<"/", "v">>}

\* URLs of the grammar: a handle, and a channel id.
ValidUrls ==
  {Txt_http \o <<"s">> \o Txt_sep \o Txt_www \o Txt_host \o At_a,
   Txt_http \o Txt_sep \o Txt_host \o Txt_channelUC \o [k \in 1..21 |-> "a"] \o <<"Q">>}

\* The uploads playlist of channel UC2 when it also lists v1, a video stored
\* under channel UC1, there with another title.
SharedPages(uploads, token) ==
  IF uploads = Some(UU2) /\ token = None
  THEN {Page(<<Item(V3, <<"z">>), Item(V1, <<"q">>)>>, None)} ELSE {}

\* channels.list?forHandle=@b when channel UC2 has as many followers, views
\* or videos as channel UC1.
TwinAnswers(username) ==
  IF username = At_b
  THEN {Found(<<[ResourceB EXCEPT !.subscriberCount = ResourceA.subscriberCount]>>),
        Found(<<[ResourceB EXCEPT !.viewCount = ResourceA.viewCount]>>),
        Found(<<[ResourceB EXCEPT !.videoCount = ResourceA.videoCount]>>)}
  ELSE {}

UrlsInput == UrlsSeq \cup {Some(u) : u \in InvalidUrls \cup ValidUrls}

NextInput ==
  \/ \E url \in UrlsInput : Quiet /\ IngestStart(1, url, MaxRequests)
  \/ IngestDbLookup(1, TRUE)
  \/ \E r \in LookupByHandle(ingest[1].username) \cup TwinAnswers(ingest[1].username) :
        IngestFetchChannel(1, r)
  \/ \E r \in Pages(ingest[1].details.uploads, ingest[1].nextPageToken)
               \cup SharedPages(ingest[1].details.uploads, ingest[1].nextPageToken) :
        IngestFetchPage(1, r)
  \/ \E b \in 1..Len(ingest[1].batches) :
        IngestBatchDone(1, b, Found(StatItems(ingest[1].batches[b].ids, StatLow)))
  \/ IngestInsertChannel(1, TRUE)
  \/ IngestInsertVideos(1, TRUE)
  \/ \E dbOk \in BOOLEAN : IngestInsertStats(1, dbOk)
  \/ IngestCacheDelete(1, TRUE)
  \/ Quiet /\ ReadCacheGet(1, MaxRequests)
  \/ ReadQuery(1, TRUE)
  \/ ReadPut(1, TRUE)
  \/ Quiet /\ hist.returned /\ Tick(1, MaxTicks)

SpecInput == Init /\ [][NextInput]_vars

(***************************************************************************)
(* One ingestion at a time against an upstream that answers every call,    *)
(* with playlists of more than one page and more than one statistics batch *)
(***************************************************************************)
\* maxResults of the playlistItems.list URL: the items of a full page.
maxResults == 50

\* Pages the model lets a playlist have.
MaxPages == 2

RECURSIVE ToText(_)
\* The decimal text of a natural number.
ToText(n) ==
  LET d == CHOOSE ch \in Digits : DigitVal(ch) = n % 10
  IN IF n < 10 THEN <<d>> ELSE ToText(n \div 10) \o <<d>>

\* The n-th video of the uploads playlist.
NthItem(n) == Item(<<"v">> \o ToText(n), <<"t">> \o ToText(n))

\* The page number a page token stands for.
PageNumber(token) == IF IsSome(token) THEN DecimalValue(Val(token)) ELSE 1

\* Page k with m items; a page that is not the last is full.
LongPage(k, m, isLast) ==
  Page([j \in 1..m |-> NthItem((k - 1) * maxResults + j)],
       IF isLast THEN None ELSE Some(ToText(k + 1)))

\* playlistItems.list of an uploads playlist of any length: the page asked for
\* is the last one, with one item or full, or a full page with a token.
LongPages(token) ==
  LET k == PageNumber(token)
  IN {LongPage(k, 1, TRUE), LongPage(k, maxResults, TRUE)}
     \cup (IF k < MaxPages THEN {LongPage(k, maxResults, FALSE)} ELSE {})

\* The channel by its handle, and by a URL whose path is its id: the id is
\* then the username, and a stored channel is found without a lookup.
UrlsQuota == {Some(At_a), Some(Txt_http \o Txt_sep \o Txt_host \o UC1)}

NextQuota ==
  \/ \E url \in UrlsQuota : Quiet /\ IngestStart(1, url, MaxRequests)
  \/ IngestDbLookup(1, TRUE)
  \/ \E r \in {Found(<<>>), Found(<<ResourceA>>)} : IngestFetchChannel(1, r)
  \/ \E r \in LongPages(ingest[1].nextPageToken) : IngestFetchPage(1, r)
  \/ \E b \in 1..Len(ingest[1].batches) :
        IngestBatchDone(1, b, Found(StatItems(ingest[1].batches[b].ids, StatLow)))
  \/ IngestInsertChannel(1, TRUE)
  \/ IngestInsertVideos(1, TRUE)
  \/ IngestInsertStats(1, TRUE)
  \/ IngestCacheDelete(1, TRUE)
  \/ Quiet /\ hist.returned /\ Tick(1, MaxTicks)

SpecQuota == Init /\ [][NextQuota]_vars

MaxIngests == 1

\* The same, where the playlistItems.list call of any page and the
\* videos.list call of any batch may fail.
NextBatch ==
  \/ \E url \in UrlsQuota : Quiet /\ IngestStart(1, url, MaxIngests)
  \/ IngestDbLookup(1, TRUE)
  \/ \E r \in {Found(<<>>), Found(<<ResourceA>>)} : IngestFetchChannel(1, r)
  \/ \E r \in LongPages(ingest[1].nextPageToken) \cup {FailedPage, ErrorPage} :
        IngestFetchPage(1, r)
  \/ \E b \in 1..Len(ingest[1].batches) :
        \E r \in {Failed, Found(StatItems(ingest[1].batches[b].ids, StatLow))} :
          IngestBatchDone(1, b, r)
  \/ IngestInsertChannel(1, TRUE)
  \/ IngestInsertVideos(1, TRUE)
  \/ IngestInsertStats(1, TRUE)
  \/ IngestCacheDelete(1, TRUE)
  \/ Quiet /\ hist.returned /\ Tick(1, MaxTicks)

SpecBatch == Init /\ [][NextBatch]_vars

(***************************************************************************)
(* Ingestions and a refresh-all that arrive at the same instant            *)
(***************************************************************************)
\* GET / twice and POST /channels/refresh, every request arriving before any
\* has returned: the clock stands still.
NextRace ==
  \/ \E i \in Ingests, url \in Urls : LowestFree(ingest, i) /\ IngestStart(i, url, MaxRequests)
  \/ \E i \in Ingests : IngestDbLookup(i, TRUE)
  \/ \E i \in Ingests : \E r \in LookupByHandle(ingest[i].username) : IngestFetchChannel(i, r)
  \/ \E i \in Ingests : \E r \in Pages(ingest[i].details.uploads, ingest[i].nextPageToken) :
        IngestFetchPage(i, r)
  \/ \E i \in Ingests : \E b \in 1..Len(ingest[i].batches) :
        \E r \in StatsWhole(ingest[i].batches[b].ids) : IngestBatchDone(i, b, r)
  \/ \E i \in Ingests : IngestInsertChannel(i, TRUE)
  \/ \E i \in Ingests : IngestInsertVideos(i, TRUE)
  \/ \E i \in Ingests : IngestInsertStats(i, TRUE)
  \/ \E i \in Ingests : IngestCacheDelete(i, TRUE)
  \/ \E f \in Refreshers : RefreshStart(f, MaxRequests)
  \/ \E f \in Refreshers : \E order \in Perms(channels) : RefreshSelect(f, order, TRUE)
  \/ \E f \in Refreshers : \E k \in 1..Len(refresh[f].tasks) :
        \E r \in LookupById(refresh[f].allChannels[k].id) : RefreshFetch(f, k, r)
  \/ \E f \in Refreshers : \E k \in 1..Len(refresh[f].tasks) : RefreshUpdate(f, k, TRUE)

SpecRace == Init /\ [][NextRace]_vars

(***************************************************************************)
(* POST /channels/refresh alone, over a store of known channels            *)
(***************************************************************************)
MaxChannels == 6

\* What the upstream holds of the n-th known channel.
KnownResource(n) ==
  Resource(<<"U", "C">> \o ToText(n), <<"@">> \o ToText(n), <<"t">> \o ToText(n),
           <<"U", "U">> \o ToText(n), ToText(n), ToText(10 + n), ToText(20 + n))

RECURSIVE KnownChannels(_)
\* Table channels after the first n known channels were ingested at time 0.
KnownChannels(n) ==
  IF n = 0 THEN {}
  ELSE InsertChannelStmt(KnownChannels(n - 1),
                         DetailsArgs(DetailsOfResource(KnownResource(n))), 0).table

\* The rows of the SELECT in the order they were inserted.
KnownOrder ==
  [k \in 1..Cardinality(channels) |->
     CHOOSE r \in channels : r.id = Val(KnownResource(k).id)]

\* What the upstream holds of the n-th known channel now: its counters have
\* moved since the ingestion.
UpstreamNow(n) ==
  [KnownResource(n) EXCEPT !.subscriberCount = Some(ToText(30 + n)),
                           !.viewCount = Some(ToText(40 + n)),
                           !.videoCount = Some(ToText(50 + n))]

\* channels.list?id=channelId for a known channel: the call fails or answers
\* with the channel as it is now.
KnownLookup(id) ==
  {Failed}
  \cup {Found(<<UpstreamNow(n)>>) :
          n \in {m \in 1..MaxChannels : Val(KnownResource(m).id) = id}}

\* The handler of POST /channels/refresh has returned its response and the
\* runtime ends the invocation: the channels.list calls and UPDATEs that
\* are still outstanding, and the tasks still queued in the limiter, are
\* dropped.  The handler awaits nothing after Promise.all rejects and hands
\* nothing to waitUntil, so whether the rest runs is the runtime's choice.
\* hist.dropped is history: the number of per-channel refreshes the run ended
\* without settling.
RefreshAbandon(f) ==
  /\ refresh[f].pc = "running"
  /\ refresh[f].responded
  /\ ~Settled(refresh[f].tasks)
  /\ refresh' = [refresh EXCEPT ![f] = IdleRefresh]
  /\ hist' = [hist EXCEPT !.dropped = Len(refresh[f].tasks) - Cardinality(
                 {k \in 1..Len(refresh[f].tasks) :
                    refresh[f].tasks[k].st \in {"fulfilled", "rejected"}})]
  /\ UNCHANGED <<store, youtube_cache, totalQuotaUsed, now, ingest, reader, last>>

InitRefresh ==
  /\ \E n \in 0..MaxChannels : channels = KnownChannels(n)
  /\ videos = {}
  /\ videoStatistics = <<>>
  /\ youtube_cache = None
  /\ totalQuotaUsed = 0
  /\ now = 1
  /\ ingest = [i \in Ingests |-> IdleIngest]
  /\ reader = [r \in Readers |-> IdleReader]
  /\ refresh = [f \in Refreshers |-> IdleRefresh]
  /\ last = [kind |-> "none"]
  /\ hist = [started |-> 0, ticks |-> 0, returned |-> FALSE,
             lastSuccessLen |-> 0, lastDone |-> "", evicted |-> FALSE, dropped |-> 0]

NextRefresh ==
  \/ RefreshStart(1, 1)
  \/ \E dbOk \in BOOLEAN : RefreshSelect(1, KnownOrder, dbOk)
  \/ \E k \in 1..Len(refresh[1].tasks) :
       \E r \in KnownLookup(refresh[1].allChannels[k].id) : RefreshFetch(1, k, r)
  \/ \E k \in 1..Len(refresh[1].tasks) : RefreshUpdate(1, k, TRUE)
  \/ RefreshAbandon(1)

SpecRefresh == InitRefresh /\ [][NextRefresh]_vars

(***************************************************************************)
(* The rankings, the rollup and the details check on stores of every shape *)
(***************************************************************************)
MaxSnapshots == 3

\* Two channels as their ingestions left them, channel UC1 with the videos
\* v1 and v2, channel UC2 with the video v3.
RankChannels ==
  InsertChannelStmt(InsertChannelStmt({}, DetailsArgs(DetailsOfResource(ResourceA)), 0).table,
                    DetailsArgs(DetailsOfResource(ResourceB)), 0).table

RankVideos ==
  InsertVideosStmt(
    InsertVideosStmt({}, RankChannels,
                     PageVideos(<<Item(V1, <<"x">>), Item(V2, <<"y">>)>>), UC1, 0).table,
    RankChannels, PageVideos(<<Item(V3, <<"z">>)>>), UC2, 0).table

\* Statistics as videos.list may give them: a field may be absent, and a
\* field is a text that need not be a number.
RankStats ==
  {[viewCount |-> Some(<<"3", "0">>), likeCount |-> Some(<<"1", "0">>), commentCount |-> None],
   [viewCount |-> Some(<<"2", "0">>), likeCount |-> Some(<<"2", "0">>),
    commentCount |-> Some(<<"x">>)],
   [viewCount |-> None, likeCount |-> Some(<<"3", "0">>), commentCount |-> Some(<<"2">>)]}

\* Table video_statistics after n appends of one row each, at the times 1..n.
RankSnapshots(n) ==
  {[k \in 1..n |-> [videoId |-> f[k][1], statistics |-> f[k][2], recordedAt |-> k]] :
     f \in [1..n -> {V1, V2, V3} \X RankStats]}

\* The limit parameter of the top-N handlers.
LimitsRank == {None, Some(<<"1">>), Some(<<"2">>)}

At_c == <<"@", "c">>

\* A channel the upstream shows with a counter that is hidden, zero or not a
\* number; everything else is there.
SparseResources ==
  LET res == Resource(<<"U", "C", "3">>, At_c, <<"t", "3">>, <<"U", "U", "3">>,
                      <<"4">>, <<"9">>, <<"3">>)
  IN {[res EXCEPT !.subscriberCount = None],
      [res EXCEPT !.viewCount = Some(<<"0">>)],
      [res EXCEPT !.videoCount = Some(<<"n", "/", "a">>)]}

InitRank ==
  /\ channels = RankChannels
  /\ videos = RankVideos
  /\ \E n \in 0..MaxSnapshots : videoStatistics \in RankSnapshots(n)
  /\ youtube_cache = None
  /\ totalQuotaUsed = 0
  /\ now = MaxSnapshots + 1
  /\ ingest = [i \in Ingests |-> IdleIngest]
  /\ reader = [r \in Readers |-> IdleReader]
  /\ refresh = [f \in Refreshers |-> IdleRefresh]
  /\ last = [kind |-> "none"]
  /\ hist = [started |-> 0, ticks |-> 0, returned |-> FALSE,
             lastSuccessLen |-> 0, lastDone |-> "", evicted |-> FALSE, dropped |-> 0]

\* One request on the store: a top-N query, the top-per-channel query, a
\* rollup read, or the ingestion of a channel with a sparse counter.
NextRank ==
  \/ \E field \in Fields, q \in LimitsRank : TopVideos(field, q, 1)
  \/ TopChannelViews(1)
  \/ ReadCacheGet(1, 1)
  \/ ReadQuery(1, TRUE)
  \/ ReadPut(1, TRUE)
  \/ IngestStart(1, Some(At_c), 1)
  \/ IngestDbLookup(1, TRUE)
  \/ \E res \in SparseResources : IngestFetchChannel(1, Found(<<res>>))

SpecRank == InitRank /\ [][NextRank]_vars

(***************************************************************************)
(* What the specification expects of the rollup and of the rankings        *)
(***************************************************************************)
\* The statistics rows of a video, by position.
SnapshotsOf(vstats, videoId) == {k \in 1..Len(vstats) : vstats[k].videoId = videoId}

\* The latest snapshot of a video that has one: maximal recordedAt, and the
\* one appended last among equals.
LatestSnapshot(vstats, videoId) ==
  CHOOSE k \in SnapshotsOf(vstats, videoId) :
    \A j \in SnapshotsOf(vstats, videoId) :
      \/ vstats[j].recordedAt < vstats[k].recordedAt
      \/ vstats[j].recordedAt = vstats[k].recordedAt /\ j <= k

RECURSIVE LatestSum(_, _, _, _, _)
\* The sum of a field over the latest snapshots of the videos of a channel.
LatestSum(vids, vstats, channelId, field, k) ==
  IF k = 0 THEN 0
  ELSE LatestSum(vids, vstats, channelId, field, k - 1)
       + (IF /\ ChannelOfVideo(vids, vstats[k].videoId) = channelId
             /\ k = LatestSnapshot(vstats, vstats[k].videoId)
          THEN OrZero(parseInt(vstats[k].statistics[field])) ELSE 0)

\* The metric of a video: the field of its latest snapshot as a number, zero
\* when it is absent or no number, and zero for a video without snapshots.
LatestMetric(vstats, videoId, field) ==
  IF SnapshotsOf(vstats, videoId) = {} THEN 0
  ELSE OrZero(parseInt(vstats[LatestSnapshot(vstats, videoId)].statistics[field]))

\* The scenario of the specification: item A (v1) has snapshots at t1 with
\* likes 10 and at t3 with likes 30, item B (v3, on another channel) has one
\* at t2 with likes 20.
ScenarioSnapshots ==
  LET likes(t) == CHOOSE st \in RankStats : st.likeCount = Some(t)
  IN <<[videoId |-> V1, statistics |-> likes(<<"1", "0">>), recordedAt |-> 1],
       [videoId |-> V3, statistics |-> likes(<<"2", "0">>), recordedAt |-> 2],
       [videoId |-> V1, statistics |-> likes(<<"3", "0">>), recordedAt |-> 3]>>

\* The store's uniqueness rules as the specification has them: one channel
\* row per id, name, thumbnail and upload handle, one video row per id.
UniqueKeysHold(chans, vids) ==
  /\ \A a, b \in chans :
       (\/ a.id = b.id \/ a.channelName = b.channelName
        \/ a.thumbnail = b.thumbnail \/ a.channelUploadID = b.channelUploadID) => a = b
  /\ \A a, b \in vids : a.id = b.id => a = b

\* The store's foreign keys: a video row names a stored channel, a
\* statistics row names a stored video.
ForeignKeysHold(chans, vids, vstats) ==
  /\ \A v \in vids : \E c \in chans : c.id = v.channelId
  /\ \A k \in 1..Len(vstats) : \E v \in vids : v.id = vstats[k].videoId

\* The videos without a statistics row.
Unmeasured == {v \in videos : SnapshotsOf(videoStatistics, v.id) = {}}

\* The videos whose latest snapshot has a positive value of the field.
Positive(field) ==
  {v \in videos \ Unmeasured :
     Coalesce(CastInteger(videoStatistics[LatestSnapshot(videoStatistics, v.id)]
                            .statistics[field]).value) > 0}

\* The outcome the refresh response reports for the k-th known channel: the
\* response lists the channels it calls updated and marks none as failed.
Outcome(resp, k) == IF k <= Len(resp.updatedChannels) THEN "success" ELSE "none"

(***************************************************************************)
(* Claims                                                                  *)
(***************************************************************************)
\* C1: a rollup read that starts after an ingestion has returned success
\* never returns a rollup computed from the statistics table as it was before
\* that ingestion's append, whatever the interleaving of ingestions and reads.
C1_NoStaleReadAfterIngestion ==
  (last.kind = "read" /\ last.status = 200) => last.len >= last.floor

C3_RollupSumsLatestOnly ==
  \A e \in ChannelStatistics(channels, videos, videoStatistics) :
    /\ e.totalLikes = LatestSum(videos, videoStatistics, e.channelId, "likeCount",
                                Len(videoStatistics))
    /\ e.totalComments = LatestSum(videos, videoStatistics, e.channelId, "commentCount",
                                   Len(videoStatistics))

\* C4: in every store state, for every video with at least one snapshot the
\* latest-snapshot resolution of the ranking queries yields exactly one row,
\* and its snapshot's recordedAt is at least that of every snapshot of the
\* video, also when two snapshots share the maximal recordedAt.
C4_OneLatestRowPerVideo ==
  \A v \in videos \ Unmeasured :
    LET rows == {r \in LatestRows(channels, videos, videoStatistics, "viewCount") :
                   r.videoId = v.id}
    IN /\ Cardinality(rows) = 1
       /\ \A r \in rows : \A j \in SnapshotsOf(videoStatistics, v.id) :
            videoStatistics[r.stat].recordedAt >= videoStatistics[j].recordedAt

\* C5: a video without snapshots is never left out by the rankings: it is in
\* the top-N result whenever fewer than N videos have a positive metric, and
\* a channel whose videos all lack snapshots has a row in top-per-channel.
C5_UnmeasuredVideosRanked ==
  /\ (hist.returned /\ last.kind = "top" /\ last.status = 200
      /\ Cardinality(Positive(last.field)) < last.limit
      /\ Cardinality(videos) <= last.limit)
       => \A v \in Unmeasured : \E k \in 1..Len(last.data) : last.data[k].videoId = v.id
  /\ (hist.returned /\ last.kind = "topChannel" /\ last.status = 200)
       => \A c \in {v.channelId : v \in videos} :
            (\A v \in videos : v.channelId = c => v \in Unmeasured)
              => \E r \in last.data : r.channelId = c

\* C6: refresh-all does not fail as a whole: it returns one outcome per known
\* channel, failure exactly for the channels whose upstream call failed and
\* success for the others.
C6_OneOutcomePerChannel ==
  last.kind = "refresh"
    => /\ last.status = 200
       /\ \A k \in 1..last.known :
            Outcome(last, k) = (IF k \in last.failed THEN "failure" ELSE "success")

\* C7: the quota an ingestion or a refresh-all reports equals the cost of the
\* upstream calls of that operation alone, also when another operation
\* overlaps it: the other's reset does not lower it and the other's charges
\* are not in it.
C7_QuotaOfOwnCalls ==
  /\ (last.kind = "ingest" /\ IsSome(last.quotaUsed))
       => Val(last.quotaUsed) = last.calls.charged
  /\ last.kind = "refresh" => Val(last.quotaUsed) = last.charged

\* C8: an ingestion that runs alone and whose upstream calls all answer
\* reports c + p + b, the channel lookups, playlist pages and statistics
\* batches it made at cost 1 each, where b = ceil(videos / 50); earlier
\* operations' charges are not in the total.
C8_QuotaFormula ==
  (last.kind = "ingest" /\ last.status = 200 /\ last.body = "json")
    => /\ IsSome(last.quotaUsed)
       /\ Val(last.quotaUsed) = last.calls.channels * 1 + last.calls.pages * 1
                                + last.calls.batches * 1
       /\ last.calls.batches = (last.calls.items + 49) \div 50

\* An ingestion after an earlier one has reported a lookup, two pages and two
\* batches.
C8_Witness ==
  /\ last.kind = "ingest" /\ last.status = 200 /\ last.body = "json"
  /\ hist.started >= 2
  /\ last.calls.channels = 1 /\ last.calls.pages = 2 /\ last.calls.batches = 2
  /\ last.quotaUsed = Some(5)

\* C9: ingesting a channel and its videos again leaves one row per channel id
\* and per video id, with createdAt as it was and updatedAt advanced to the
\* time of the second ingestion.
C9_IdempotentUpsert ==
  [][\A i \in Ingests :
       /\ (ingest[i].pc = "insertChannel" /\ ingest'[i].pc = "insertVideos")
            => \A old \in {c \in channels : c.id = Val(ingest[i].details.id)} :
                 /\ Cardinality({c \in channels' : c.id = old.id}) = 1
                 /\ \A c \in channels' :
                      c.id = old.id => /\ c.createdAt = old.createdAt
                                       /\ c.updatedAt = now
                                       /\ c.updatedAt > old.updatedAt
       /\ (ingest[i].pc = "insertVideos" /\ ingest'[i].pc = "insertStats")
            => \A old \in {v \in videos : v.id \in {ingest[i].videos[k].videoId :
                                                     k \in 1..Len(ingest[i].videos)}} :
                 /\ Cardinality({v \in videos' : v.id = old.id}) = 1
                 /\ \A v \in videos' :
                      v.id = old.id => /\ v.createdAt = old.createdAt
                                       /\ v.updatedAt = now
                                       /\ v.updatedAt > old.updatedAt]_vars

\* A second ingestion of a channel has returned success: the channel and a
\* video of it were written after they were created.
C9_Witness ==
  /\ last.kind = "ingest" /\ last.status = 200 /\ last.body = "json"
  /\ \E c \in channels : \E v \in videos :
       /\ v.channelId = c.id
       /\ c.createdAt < c.updatedAt /\ c.updatedAt = now
       /\ v.createdAt < v.updatedAt /\ v.updatedAt = now

\* C10: snapshots are append-only: every step keeps every statistics row as
\* it is, with its video id, statistics and recordedAt, and only adds rows at
\* the end.
C10_AppendOnly ==
  [][/\ Len(videoStatistics') >= Len(videoStatistics)
     /\ SubSeq(videoStatistics', 1, Len(videoStatistics)) = videoStatistics]_vars

\* A video has two snapshots, recorded at different times.
C10_Witness ==
  \E j, k \in 1..Len(videoStatistics) :
    /\ videoStatistics[j].videoId = videoStatistics[k].videoId
    /\ videoStatistics[j].recordedAt < videoStatistics[k].recordedAt

\* C11: within one refresh-all invocation over any number of known channels,
\* at every moment at most 5 per-channel refreshes are in flight (started and
\* not yet settled); the others wait in the queue.
C11_AtMostFiveInFlight ==
  \A f \in Refreshers : InFlight(refresh[f].tasks) <= 5

\* Five refreshes are in flight while a sixth channel waits in the queue.
C11_Witness ==
  /\ InFlight(refresh[1].tasks) = 5
  /\ \E k \in 1..Len(refresh[1].tasks) : refresh[1].tasks[k].st = "queued"

C12_FailedBatchIsolated ==
  [][\A i \in Ingests :
       ingest[i].pc = "stats" /\ ingest'[i] # ingest[i] =>
         /\ ingest'[i].pc \in {"stats", "insertChannel"}
         /\ last' = last
         /\ ingest'[i].pc = "insertChannel" =>
              LET vs == ingest[i].videos
                  kept == {k \in 1..Len(vs) :
                             ((k - 1) \div 50) + 1 \notin ingest'[i].calls.failedBatches}
                  st == ingest'[i].stats
              IN /\ Len(st) = Cardinality(kept)
                 /\ \A k \in kept :
                      st[Cardinality({m \in kept : m <= k})] =
                        [videoId |-> vs[k].videoId, statistics |-> StatLow]]_vars

\* Of two batches one has failed and the other has not: the fetch has ended
\* with the descriptors of the other alone.
C12_Witness ==
  /\ ingest[1].pc = "insertChannel"
  /\ ingest[1].calls.batches = 2
  /\ Cardinality(ingest[1].calls.failedBatches) = 1
  /\ ingest[1].stats # <<>>
  /\ Len(ingest[1].stats) < Len(ingest[1].videos)

\* C13: when the rollup key is present and unexpired in the cache, a rollup
\* read returns exactly the cached value with source "cache", performs no
\* read of the snapshot store (it returns at once, no query is issued), and
\* leaves both the store and the cache entry unchanged.
C13_CacheHitFrame ==
  [][/\ IsSome(youtube_cache)
     /\ now < Val(youtube_cache).expiresAt
     /\ \E r \in Readers : ReadCacheGet(r, MaxRequests)
     => /\ last'.kind = "read"
        /\ last'.status = 200
        /\ last'.source = "cache"
        /\ last'.data = Val(youtube_cache).value
        /\ \A r \in Readers : reader'[r].pc # "query"
        /\ store' = store
        /\ youtube_cache' = youtube_cache]_vars

\* A read has returned a cached rollup of a store with channels, and the
\* entry is still in the cache.
C13_Witness ==
  /\ hist.returned
  /\ last.kind = "read"
  /\ last.source = "cache"
  /\ last.data # {}
  /\ IsSome(youtube_cache)
  /\ Val(youtube_cache).value = last.data

\* C14: a rollup read that misses the cache recomputes the rollup from the
\* store, writes exactly the value it returns under the key with a TTL of
\* 1 hour (3600 s), and returns it; a later read within the TTL, the entry
\* not having been invalidated, returns that identical value from the cache,
\* and a read after the TTL has expired recomputes.
C14_MissPutsWithTtl ==
  [][\A r \in Readers :
       /\ reader[r].pc = "query" /\ reader'[r].pc = "put"
            => reader'[r].data = ChannelStatistics(channels, videos, videoStatistics)
       /\ reader[r].pc = "put" /\ reader'[r].pc = "idle" /\ last'.status = 200
            => /\ last'.source = "database"
               /\ last'.data = reader[r].data
               /\ IsSome(youtube_cache')
               /\ Val(youtube_cache').value = last'.data
               /\ Val(youtube_cache').expiresAt = now + 3600
       /\ IsSome(youtube_cache) /\ ReadCacheGet(r, MaxRequests)
            => IF now < Val(youtube_cache).expiresAt
               THEN last'.source = "cache" /\ last'.data = Val(youtube_cache).value
               ELSE reader'[r].pc = "query" /\ last' = last]_vars

\* A read after the TTL has expired: the entry put an hour ago is passed
\* over and the read is at its query.
C14_Witness ==
  /\ IsSome(youtube_cache)
  /\ now >= Val(youtube_cache).expiresAt
  /\ reader[1].pc = "query"

\* C15: for every store and every N, a top-N-by-metric query (views, likes or
\* comments) that answers returns at most N rows (N is 5 when the caller
\* gives none), each with the metric of the item's latest snapshot, ordered
\* by non-increasing metric, and no item left out has a latest metric greater
\* than that of a returned item; in the scenario of item A with likes 10 at
\* t1 and 30 at t3 and item B with likes 20 at t2, top-1-by-likes is A with 30.
C15_TopNOrdered ==
  [][\A field \in Fields, q \in LimitsRank :
       TopVideos(field, q, 1) /\ last'.status = 200 =>
         LET N == IF IsSome(q) THEN DecimalValue(Val(q)) ELSE 5
             data == last'.data
             returned == {data[k].videoId : k \in 1..Len(data)}
         IN /\ Len(data) <= N
            /\ \A k \in 1..Len(data) :
                 Metric(data[k]) = LatestMetric(videoStatistics, data[k].videoId, field)
            /\ \A j, k \in 1..Len(data) : j < k => Metric(data[j]) >= Metric(data[k])
            /\ \A v \in videos : v.id \notin returned =>
                 \A k \in 1..Len(data) :
                   LatestMetric(videoStatistics, v.id, field) <= Metric(data[k])
            /\ (videoStatistics = ScenarioSnapshots /\ field = "likeCount" /\ N = 1)
                 => Len(data) = 1 /\ data[1].videoId = V1 /\ Metric(data[1]) = 30]_vars

\* The scenario's top-1-by-likes has been answered with item A and 30.
C15_Witness ==
  /\ videoStatistics = ScenarioSnapshots
  /\ last.kind = "top"
  /\ last.status = 200
  /\ last.field = "likeCount"
  /\ last.limit = 1
  /\ Len(last.data) = 1
  /\ last.data[1].videoId = V1
  /\ Metric(last.data[1]) = 30

\* C16: for every store, the top-per-channel query returns exactly one row
\* for each channel that owns at least one video and no row for a channel
\* without videos, and the row of a channel is a video of that channel whose
\* latest view count is maximal among the latest view counts of its videos.
C16_OneRowPerChannel ==
  (hist.returned /\ last.kind = "topChannel" /\ last.status = 200) =>
    \A c \in channels :
      LET own == {v \in videos : v.channelId = c.id}
          rows == {r \in last.data : r.channelId = c.id}
      IN IF own = {} THEN rows = {}
         ELSE /\ Cardinality(rows) = 1
              /\ \A r \in rows :
                   /\ \E v \in own : v.id = r.videoId
                   /\ \A v \in own :
                        LatestMetric(videoStatistics, v.id, "viewCount")
                          <= LatestMetric(videoStatistics, r.videoId, "viewCount")

\* C17: an ingestion whose identifier neither starts with '@' nor matches the
\* URL grammar ends with a client-input error (400), not a crash or a server
\* error; it issues no upstream call (the quota total stays 0), writes
\* nothing to the store and leaves the cache unchanged.
C17_InvalidIdentifierRejected ==
  [][\A i \in Ingests : \A url \in InvalidUrls :
       IngestStart(i, Some(url), MaxRequests) =>
         /\ ingest'[i].pc = "idle"
         /\ last'.kind = "ingest"
         /\ last'.status = 400
         /\ last'.calls = NoCalls
         /\ totalQuotaUsed' = 0
         /\ store' = store
         /\ youtube_cache' = youtube_cache]_vars

\* An identifier was rejected while the store held channels and the cache
\* held a rollup.
C17_Witness ==
  /\ hist.returned
  /\ last.kind = "ingest"
  /\ last.status = 400
  /\ last.body = "Invalid input"
  /\ last.calls = NoCalls
  /\ channels # {}
  /\ IsSome(youtube_cache)

\* C18: after every completed refresh cycle of an already stored channel (a
\* refresh-all run or a re-ingestion), the channel's stored follower count,
\* view count and item count equal the values the upstream reported during
\* that cycle.  Here: a refresh-all run has answered 200 and is over, every
\* channel's call having reported the counters of UpstreamNow.
C18_CountersReplaced ==
  (last.kind = "refresh" /\ last.status = 200 /\ refresh[1].pc = "idle") =>
    \A n \in 1..Cardinality(channels) :
      \A r \in channels :
        r.id = Val(UpstreamNow(n).id) =>
          /\ r.followersCount = OrZero(Number(UpstreamNow(n).subscriberCount))
          /\ r.viewsCount = OrZero(Number(UpstreamNow(n).viewCount))
          /\ r.videoCount = OrZero(Number(UpstreamNow(n).videoCount))

\* C19: an upstream counter that is missing or non-numeric is treated as
\* zero and never makes an operation fail: the rollup and every top-N and
\* top-per-channel query succeed, and a channel whose subscriber, view or
\* video counter is missing, non-numeric or zero is still ingested (the
\* ingestion does not end with the 400 of unusable details).
C19_SparseCountersAreZero ==
  /\ last.kind \in {"top", "topChannel", "read"} => last.status = 200
  /\ (last.kind = "ingest" /\ last.calls.charged > 0) => last.status # 400

\* C21: when the upstream serves a chain of k pages, the last without a
\* continuation token, the listing ends after exactly k page requests: the
\* n-th request asks for page n with the token of page n - 1, the
\* playlist-list cost is charged k times, and the items of the k pages are
\* returned in page order.
C21_PaginationFollowsChain ==
  [][\A i \in Ingests :
       ingest[i].pc = "playlist" =>
         LET k == PageNumber(ingest[i].nextPageToken)
         IN /\ ingest[i].calls.pages = k
            /\ Len(ingest[i].videos) = (k - 1) * 50
            /\ ingest'[i].pc = "playlist" =>
                 /\ PageNumber(ingest'[i].nextPageToken) = k + 1
                 /\ ingest'[i].calls.pages = k + 1
            /\ ingest'[i].pc = "stats" =>
                 /\ ingest'[i].calls.pages = k
                 /\ ingest'[i].calls.charged = ingest'[i].calls.channels * 1 + k * 1
                 /\ totalQuotaUsed' = ingest'[i].calls.charged
                 /\ Len(ingest'[i].videos) \in {(k - 1) * 50 + 1, k * 50}
                 /\ \A j \in 1..Len(ingest'[i].videos) :
                      ingest'[i].videos[j].videoId = NthItem(j).videoId]_vars

\* A chain of two pages has been listed: two requests, 51 videos.
C21_Witness ==
  /\ ingest[1].pc = "stats"
  /\ ingest[1].calls.pages = 2
  /\ Len(ingest[1].videos) = 51

\* C22: when fetching a page of the listing fails, the listing ends early:
\* the failed page is not requested again and no later page is requested
\* (the request is over with a server error, its page requests are those
\* made so far), so the listing never retries indefinitely.
C22_FailedPageEndsListing ==
  [][\A i \in Ingests :
       (\E r \in {FailedPage, ErrorPage} : IngestFetchPage(i, r)) =>
         /\ ingest'[i].pc = "idle"
         /\ last'.kind = "ingest"
         /\ last'.status = 500
         /\ last'.calls.pages = ingest[i].calls.pages
         /\ last'.calls.pages = PageNumber(ingest[i].nextPageToken)
         /\ store' = store]_vars

\* The second page of a listing has failed: the ingestion is over after two
\* page requests and without a video listed.
C22_Witness ==
  /\ last.kind = "ingest"
  /\ last.status = 500
  /\ last.calls.pages = 2
  /\ last.calls.items = 0
  /\ ingest[1].pc = "idle"

\* C23: when a video upsert hits an existing video id, only title, thumbnail
\* and updatedAt of that row change: its id, channelId, url and createdAt
\* stay, so across any sequence of ingestions a video stays attached to the
\* channel it was first stored under; rows the upsert does not name stay as
\* they are.
C23_VideoIdentityKept ==
  [][/\ \A v \in videos :
          \E w \in videos' : /\ w.id = v.id /\ w.channelId = v.channelId
                             /\ w.url = v.url /\ w.createdAt = v.createdAt
     /\ \A i \in Ingests :
          (ingest[i].pc = "insertVideos" /\ ingest'[i].pc = "insertStats") =>
            LET vs == ingest[i].videos
                named == {vs[k].videoId : k \in 1..Len(vs)}
            IN /\ \A v \in videos : v.id \notin named => v \in videos'
               /\ \A k \in 1..Len(vs) : \A v \in videos :
                    v.id = vs[k].videoId =>
                      [v EXCEPT !.title = vs[k].videoTitle,
                                !.thumbnailUrl = Val(vs[k].thumbnailUrl),
                                !.updatedAt = now] \in videos'
               /\ Cardinality({w.id : w \in videos'}) = Cardinality(videos')]_vars

\* Video v1, first stored under channel UC1, was listed again by the
\* ingestion of channel UC2: it has the new title and is still of UC1.
C23_Witness ==
  /\ \E v \in videos : v.id = V1 /\ v.channelId = UC1 /\ v.title = <<"q">>
                       /\ v.createdAt < v.updatedAt
  /\ \E v \in videos : v.id = V3 /\ v.channelId = UC2

\* C24: if within one ingestion the snapshot append fails after the channel
\* upsert and the video upsert have succeeded, the ingestion ends with a
\* server error, the channel and video rows it wrote stay in place (no
\* rollback), no snapshot of this ingestion exists, and the store still
\* satisfies its uniqueness and foreign-key rules.
C24_PartialWriteStays ==
  [][\A i \in Ingests :
       (ingest[i].pc = "insertStats" /\ ingest'[i].pc = "idle") =>
         /\ last'.kind = "ingest"
         /\ last'.status = 500
         /\ channels' = channels
         /\ videos' = videos
         /\ \E c \in channels' : c.id = Val(ingest[i].details.id) /\ c.updatedAt = now
         /\ \A k \in 1..Len(ingest[i].videos) :
              \E v \in videos' : /\ v.id = ingest[i].videos[k].videoId
                                 /\ v.updatedAt = now
         /\ videoStatistics' = videoStatistics
         /\ \A k \in 1..Len(videoStatistics') : videoStatistics'[k].recordedAt # now
         /\ UniqueKeysHold(channels', videos')
         /\ ForeignKeysHold(channels', videos', videoStatistics')]_vars

\* An ingestion has ended with a server error after it wrote its channel and
\* its videos: they are stored, written at this time, without a snapshot.
C24_Witness ==
  /\ hist.returned
  /\ last.kind = "ingest"
  /\ last.status = 500
  /\ last.calls.items > 0
  /\ \E c \in channels : c.updatedAt = now
  /\ \E v \in videos : v.updatedAt = now /\ SnapshotsOf(videoStatistics, v.id) = {}

\* C25: charging quota never raises an error, and the running total is
\* exposed to the caller at the end of every ingestion and every refresh-all,
\* whichever way it ends: success, client-input error or server error.
C25_QuotaAlwaysExposed ==
  (hist.returned /\ last.kind \in {"ingest", "refresh"}) => IsSome(last.quotaUsed)

\* C26: when the upstream reports no matching channel the result is "nothing
\* to do" and not an exception: a per-channel refresh leaves the channel's
\* row unchanged and completes without failure after charging the
\* channel-list cost once, and an ingestion writes nothing to the store and
\* does not end in a server error.
C26_NoMatchIsNotAnError ==
  [][/\ \A f \in Refreshers : \A k \in 1..Len(refresh[f].tasks) :
          RefreshFetch(f, k, Found(<<>>)) =>
            /\ store' = store
            /\ totalQuotaUsed' = totalQuotaUsed + QUOTA_channels_list
            /\ refresh'[f] # IdleRefresh =>
                 /\ refresh'[f].tasks[k].st = "fulfilled"
                 /\ refresh'[f].failed = refresh[f].failed
            /\ last' # last =>
                 /\ last'.kind = "refresh"
                 /\ last'.failed = refresh[f].failed
                 /\ (\A j \in 1..Len(refresh[f].tasks) :
                        refresh[f].tasks[j].st # "rejected") => last'.status = 200
     /\ \A i \in Ingests :
          IngestFetchChannel(i, Found(<<>>)) =>
            /\ store' = store
            /\ totalQuotaUsed' = totalQuotaUsed + QUOTA_channels_list
            /\ ingest'[i].pc = "idle"
            /\ last'.kind = "ingest"
            /\ last'.status = 400
            /\ last'.calls.pages = 0]_vars

\* A refresh-all over a known channel has ended well after charging for the
\* one lookup, and the channel's row is as the ingestion before the clock
\* moved left it.
C26_Witness ==
  /\ hist.returned
  /\ last.kind = "refresh"
  /\ last.status = 200
  /\ last.known = 1
  /\ last.charged = QUOTA_channels_list
  /\ totalQuotaUsed = QUOTA_channels_list
  /\ now > 0
  /\ \A c \in channels : c.updatedAt = 0

\* C27: in every reachable state, the states between the three writes of one
\* ingestion and every interleaving of concurrent ingestions and refreshes
\* included, every video row references a stored channel row and every
\* statistics row references a stored video row; an ingestion writes the
\* channel before its videos and the videos before their statistics.
C27_ForeignKeysAlways ==
  /\ ForeignKeysHold(channels, videos, videoStatistics)
  /\ \A i \in Ingests :
       /\ ingest[i].pc \in {"insertVideos", "insertStats", "cacheDelete"} =>
            \E c \in channels : c.id = Val(ingest[i].details.id)
       /\ ingest[i].pc \in {"insertStats", "cacheDelete"} =>
            \A k \in 1..Len(ingest[i].videos) :
              \E v \in videos : v.id = ingest[i].videos[k].videoId

\* One ingestion has written its channel and not yet its videos, while
\* another has written its videos and not yet its statistics and a refresh
\* is about to update the channel.
C27_Witness ==
  /\ \E i, j \in Ingests :
       /\ ingest[i].pc = "insertVideos"
       /\ ingest[j].pc = "insertStats"
  /\ channels # {}
  /\ videos # {}
  /\ videoStatistics = <<>>
  /\ \E f \in Refreshers : \E k \in 1..Len(refresh[f].tasks) :
       refresh[f].tasks[k].st = "updating"

\* C28: a refresh-all run changes nothing except the name, thumbnail, upload
\* handle and updatedAt of channel rows that already exist: it creates and
\* deletes no channel, touches no video and no statistics row, and leaves
\* the cached rollup entry as it was.
C28_RefreshWritesIdentityOnly ==
  [][refresh' # refresh =>
       /\ videos' = videos
       /\ videoStatistics' = videoStatistics
       /\ youtube_cache' = youtube_cache
       /\ {c.id : c \in channels'} = {c.id : c \in channels}
       /\ Cardinality(channels') = Cardinality(channels)
       /\ \A c \in channels : \E d \in channels' :
            d = [c EXCEPT !.channelName = d.channelName, !.thumbnail = d.thumbnail,
                          !.channelUploadID = d.channelUploadID,
                          !.updatedAt = d.updatedAt]]_vars

\* A refresh-all has ended well after updating a channel that has videos,
\* statistics and a cached rollup.
C28_Witness ==
  /\ hist.returned
  /\ last.kind = "refresh"
  /\ last.status = 200
  /\ \E c \in channels : c.updatedAt > c.createdAt
  /\ videos # {}
  /\ videoStatistics # <<>>
  /\ youtube_cache # None

\* C29: for every interleaving of two concurrent ingestions of the same
\* channel that both succeed, the store holds exactly one row for the
\* channel and one row per video id, and the statistics appended are those
\* of both ingestions: their number is the sum of the two insertedCount
\* values returned, and neither ingestion's writes are lost.
C29_ConcurrentIngestionsBothKept ==
  [][\A i, j \in Ingests :
       (/\ i # j
        /\ now = 0
        /\ ingest[i].pc = "cacheDelete"
        /\ ingest[j].pc = "cacheDelete"
        /\ ingest[i].details.id = ingest[j].details.id
        /\ ingest'[i].pc = "idle") =>
         LET a == ingest[i]
             b == ingest[j]
             ids == {a.videos[k].videoId : k \in 1..Len(a.videos)}
                    \cup {b.videos[k].videoId : k \in 1..Len(b.videos)}
         IN /\ last'.kind = "ingest"
            /\ last'.status = 200
            /\ last'.insertedCount = a.resp.insertedCount
            /\ a.resp.insertedCount = Len(a.stats)
            /\ b.resp.insertedCount = Len(b.stats)
            /\ store' = store
            /\ Cardinality(channels) = 1
            /\ \A c \in channels : c.id = Val(a.details.id)
            /\ {v.id : v \in videos} = ids
            /\ Cardinality(videos) = Cardinality(ids)
            /\ Len(videoStatistics) = a.resp.insertedCount + b.resp.insertedCount
            /\ videoStatistics \in {StatisticsValues(a.stats, now) \o StatisticsValues(b.stats, now),
                                    StatisticsValues(b.stats, now) \o StatisticsValues(a.stats, now)}]_vars

\* Two ingestions of one channel that overlapped, with a refresh-all beside
\* them, have both returned 200, and the statistics table holds two rows of
\* one video that differ.
C29_Witness ==
  /\ hist.started = 3
  /\ now = 0
  /\ hist.returned
  /\ \A i \in Ingests : ingest[i].pc = "idle"
  /\ last.kind = "ingest"
  /\ last.status = 200
  /\ Cardinality(channels) = 1
  /\ Len(videoStatistics) = 2 * last.insertedCount
  /\ \E k, m \in 1..Len(videoStatistics) :
       /\ videoStatistics[k].videoId = videoStatistics[m].videoId
       /\ videoStatistics[k].statistics # videoStatistics[m].statistics

\* C30: the store's uniqueness rules on channels cover only the external id,
\* the name, the thumbnail and the upload handle: ingesting a new channel
\* whose four identity fields are unused succeeds even when its follower,
\* view or video count equals that of a channel already stored.
C30_CountersMayRepeat ==
  [][\A i \in Ingests :
       (/\ ingest[i].pc = "insertChannel"
        /\ ingest'[i] # ingest[i]
        /\ LET d == DetailsArgs(ingest[i].details)
           IN \A c \in channels : /\ c.id # d.id
                                  /\ c.channelName # d.customName
                                  /\ c.thumbnail # d.thumbnailHighUrl
                                  /\ c.channelUploadID # d.uploads) =>
         /\ ingest'[i].pc = "insertVideos"
         /\ \E c \in channels' : c.id = Val(ingest[i].details.id)]_vars

=============================================================================
